---- MODULE Spec2Model ----
(***************************************************************************)
(* EvenSmartThings: paginated list navigation and gesture disambiguation.  *)
(*                                                                         *)
(* The store state (src/src/state/contracts.ts AppState) is one record,    *)
(* `state`; the reducer, the selectors and the page composer are operators *)
(* over such records.  Entities are identified by positive integers; the   *)
(* entity with id i is named S0i / R0i / D0i, so that the alphabetical     *)
(* order of names (localeCompare) is the order of ids.                     *)
(***************************************************************************)
EXTENDS Integers, Sequences, FiniteSets, TLC

VARIABLES
    state,              \* store.getState(): the AppState record
    labels,             \* the label list last sent to the display (refreshPage)
    useRealGlasses,     \* app.ts:703,733
    lastTapAge,         \* now - lastTapTime (app.ts:755), saturated at AgeCap
    lastTapIndex,       \* app.ts:756
    tapCount,           \* app.ts:757
    commitTimeoutId,    \* app.ts:758: null, or the handle of the scheduled commit timer
    timers,             \* the runtime's pending setTimeout(commitTap, ...) timers
    recentListIndices,  \* app.ts:759: <<[index, age]>>, oldest first
    inflight,           \* domain-data requests sent and not yet answered
    hist,               \* history of the run (observations only, never read by the program)
    walk,               \* page walk of the pagination functions
    routed,             \* last position resolved by the router's index mapping
    display,            \* the confirmation image (app.ts:1075-1116) and the bridge's image queue
    home                \* outside the app: what the cloud and the stored preferences hold

appVars == <<state, labels, useRealGlasses, display, lastTapAge, lastTapIndex, tapCount,
             commitTimeoutId, timers, recentListIndices, inflight, hist, walk, routed>>

vars == <<appVars, home>>

-----------------------------------------------------------------------------
(* Bounds of the model *)

MaxItems == 37          \* largest collection drawn for the pagination functions
MaxDetailItems == 4     \* largest collection drawn for the screens that are not paginated
MaxRecent == 3          \* longest scroll history kept in recentListIndices
MaxNavItems == 19       \* largest collection a fetch returns in the navigation model
MaxEdits == 1           \* edits of the favorites made in the config UI
MaxGestures == 1        \* gestures made in one run of the navigation model
GestureItems == 0       \* size of the collections in the gesture model
MaxCustomIds == 3       \* longest stored list of custom-ordered ids
MaxTaps == 2            \* taps committed in one run of the router model
MaxShows == 3
MaxResults == 2         \* most per-action results in the answer to a scene execution

-----------------------------------------------------------------------------
(* src/unnamed/part_002: state/constants.ts *)

LIST_MAX_ITEMS == 20
SCENES_PER_PAGE == LIST_MAX_ITEMS - 2
DEVICES_PER_PAGE == SCENES_PER_PAGE
ROOMS_PER_PAGE == SCENES_PER_PAGE
DIM_LEVELS == <<0, 10, 20, 30, 40, 50, 60, 70, 80, 90, 100>>
DIM_LEVELS_PER_PAGE == SCENES_PER_PAGE

(* src/src/render/composer.ts *)
LABEL_PREVIOUS == "<- Previous"
LABEL_BACK == "<- Back"
LABEL_NEXT == "Next ->"
LABEL_ALL == "All"

null == 0

ListViews == {"main", "scenes", "rooms", "devices", "device-detail", "device-dim",
              "room-all-detail", "room-all-dim", "favorites"}

-----------------------------------------------------------------------------
(* Helpers standing for JavaScript built-ins *)

Min(a, b) == IF a <= b THEN a ELSE b
Max(a, b) == IF a >= b THEN a ELSE b

\* Math.ceil(a / b) for b > 0
Ceil(a, b) == -((-a) \div b)

\* Array.prototype.slice(from, to), 0-based, clamped to the array
Slice(s, from, to) ==
    IF from >= Len(s) \/ to <= from THEN <<>>
    ELSE SubSeq(s, from + 1, Min(to, Len(s)))

\* Array(n).fill('')
Fill(n) == [i \in 1..n |-> ""]

\* Array.prototype.filter
Filter(s, Keep(_)) == SelectSeq(s, Keep)

Reverse(s) == [i \in 1..Len(s) |-> s[Len(s) + 1 - i]]

Range(s) == {s[i] : i \in 1..Len(s)}

\* Two-digit decimal, so that names sort like ids
TwoDigits(i) == IF i < 10 THEN "0" \o ToString(i) ELSE ToString(i)

\* The entity whose name is the name of entity id in lower case
twinOf(id) == 50 + id
isTwin(id) == id > 50

\* The name of an entity without its case: what localeCompare with
\* sensitivity 'base' compares
nameKey(id) == IF isTwin(id) THEN id - 50 ELSE id

\* Entity names as the cloud returns them (normalizeScenes / normalizeDevices)
sceneName(id) == (IF isTwin(id) THEN "s" ELSE "S") \o TwoDigits(nameKey(id))
roomName(id) == (IF isTwin(id) THEN "r" ELSE "R") \o TwoDigits(nameKey(id))
deviceName(id) == (IF isTwin(id) THEN "d" ELSE "D") \o TwoDigits(nameKey(id))

\* localeCompare(a, b) < 0 on the names of two entities of one kind
NameLess(a, b) == nameKey(a) < nameKey(b)

\* Array.prototype.sort with the localeCompare comparator is stable: a sequence
\* in order is left as it is; otherwise the element x in the middle has before it
\* the earlier elements that do not come after it and the later ones that come
\* before it, and behind it the others, each side sorted in the same way
RECURSIVE SortByName(_)
SortByName(s) ==
    IF \A i \in 1..(Len(s) - 1) : ~NameLess(s[i + 1], s[i]) THEN s
    ELSE LET m == (Len(s) + 1) \div 2
             x == s[m]
             earlier == SubSeq(s, 1, m - 1)
             later == SubSeq(s, m + 1, Len(s))
         IN  SortByName(SelectSeq(earlier, LAMBDA y : ~NameLess(x, y))
                        \o SelectSeq(later, LAMBDA y : NameLess(y, x)))
             \o <<x>>
             \o SortByName(SelectSeq(earlier, LAMBDA y : NameLess(x, y))
                           \o SelectSeq(later, LAMBDA y : ~NameLess(y, x)))

\* Device capabilities (normalizeDevices: supportsSwitch / supportsDimmer), by id
supportsSwitch(id) == id % 2 = 1
supportsDimmer(id) == id % 3 # 1

-----------------------------------------------------------------------------
(* src/src/state/selectors.ts *)

\* getDisplayName: no rename is stored, names are short and non-blank, so the
\* fallback name is returned unless it is empty
getDisplayName(s, id, fallback) == fallback

\* A variant of CustomWalk that pushes an id each time the stored list holds it
CustomWalkKeepsRepeats(customIds, items) ==
    Filter(customIds, LAMBDA id : id \in Range(items))

\* selectors.ts:40-48: the ids of customIds found in items, each taken out of
\* byId when it is pushed
RECURSIVE CustomWalk(_, _)
CustomWalk(customIds, items) ==
    IF customIds = <<>> THEN <<>>
    ELSE IF Head(customIds) \in Range(items)
         THEN <<Head(customIds)>>
              \o CustomWalk(Tail(customIds),
                            Filter(items, LAMBDA x : x # Head(customIds)))
         ELSE CustomWalk(Tail(customIds), items)

applyOrder(items, preference, customIds) ==
    IF preference = "alphabetical" THEN SortByName(items)
    ELSE IF preference = "reverse" THEN Reverse(SortByName(items))
    ELSE LET ordered == CustomWalk(customIds, items)
             rest == SortByName(Filter(items, LAMBDA x : x \notin Range(ordered)))
         IN  ordered \o rest

getOrderedScenes(s) ==
    applyOrder(s.scenes, s.preferences.listOrder.scenes, s.preferences.listOrderCustomIds.scenes)

getOrderedRooms(s) ==
    applyOrder(s.rooms, s.preferences.listOrder.rooms, s.preferences.listOrderCustomIds.rooms)

getOrderedDevices(s) ==
    applyOrder(s.devices, s.preferences.listOrder.devices, s.preferences.listOrderCustomIds.devices)

\* The ids a favorite's name can be looked up in: scenesById / devicesById
knownIds(s, type) ==
    IF type = "scene" THEN Range(s.scenes) ELSE Range(s.allDevices) \cup Range(s.devices)

\* nameA.localeCompare(nameB) < 0: an unknown favorite has the empty name, device
\* names (D..) come before scene names (S..), names of one kind go by id
FavoriteLess(sceneIds, deviceIds, a, b) ==
    LET knownA == a.id \in (IF a.type = "scene" THEN sceneIds ELSE deviceIds)
        knownB == b.id \in (IF b.type = "scene" THEN sceneIds ELSE deviceIds)
    IN  \/ ~knownA /\ knownB
        \/ /\ knownA /\ knownB
           /\ \/ a.type = "device" /\ b.type = "scene"
              \/ a.type = b.type /\ NameLess(a.id, b.id)

\* selectors.ts:105-125: the stable sort of the favorites by display name
RECURSIVE SortFavorites(_, _, _)
SortFavorites(sceneIds, deviceIds, items) ==
    IF Len(items) <= 1 THEN items
    ELSE LET m == (Len(items) + 1) \div 2
             f == items[m]
             earlier == SubSeq(items, 1, m - 1)
             later == SubSeq(items, m + 1, Len(items))
             before(a, b) == FavoriteLess(sceneIds, deviceIds, a, b)
         IN  SortFavorites(sceneIds, deviceIds,
                           SelectSeq(earlier, LAMBDA g : ~before(f, g))
                           \o SelectSeq(later, LAMBDA g : before(g, f)))
             \o <<f>>
             \o SortFavorites(sceneIds, deviceIds,
                              SelectSeq(earlier, LAMBDA g : before(f, g))
                              \o SelectSeq(later, LAMBDA g : ~before(g, f)))

favoriteDisplayName(sceneIds, deviceIds, f) ==
    IF f.type = "scene"
    THEN (IF f.id \in sceneIds THEN sceneName(f.id) ELSE "Scene")
    ELSE (IF f.id \in deviceIds THEN deviceName(f.id) ELSE "Device")

getOrderedFavorites(s) ==
    LET ids == s.preferences.favoritesIds
        pref == s.preferences.listOrder.favorites
        sceneIds == knownIds(s, "scene")
        deviceIds == knownIds(s, "device")
        items == IF pref = "alphabetical" THEN SortFavorites(sceneIds, deviceIds, ids)
                 ELSE IF pref = "reverse"
                 THEN Reverse(SortFavorites(sceneIds, deviceIds, Reverse(ids)))
                 ELSE ids
    IN  [i \in 1..Len(items) |->
            [type |-> items[i].type, id |-> items[i].id,
             displayName |-> getDisplayName(s, items[i].id,
                                favoriteDisplayName(sceneIds, deviceIds, items[i]))]]

MAIN_MENU_ITEMS == <<"scenes", "devices", "favorites">>

getMainMenuOrderedItems(s) ==
    LET pref == s.preferences.listOrder.main
        custom == s.preferences.listOrderCustomIds.main
        hasFavorites == Len(s.preferences.favoritesIds) > 0
        \* labels Devices < Favorites < Scenes
        items == IF pref = "alphabetical" THEN <<"devices", "favorites", "scenes">>
                 ELSE IF pref = "reverse" THEN <<"scenes", "favorites", "devices">>
                 ELSE IF Len(custom) > 0 THEN custom ELSE MAIN_MENU_ITEMS
    IN  IF hasFavorites THEN items ELSE Filter(items, LAMBDA x : x # "favorites")

getMainMenuOrderedViews(s) ==
    LET items == getMainMenuOrderedItems(s)
    IN  [i \in 1..Len(items) |-> IF items[i] = "devices" THEN "rooms" ELSE items[i]]

\* ordered[index] ?? null, for a 0-based index
AtOrNull(ordered, index) ==
    IF index >= 0 /\ index < Len(ordered) THEN ordered[index + 1] ELSE null

getSceneByIndex(s, index) == AtOrNull(getOrderedScenes(s), index)
getRoomByIndex(s, index) == AtOrNull(getOrderedRooms(s), index)
getDeviceByIndex(s, index) == AtOrNull(getOrderedDevices(s), index)
getFavoriteByIndex(s, index) ==
    LET ordered == getOrderedFavorites(s)
    IN  IF index >= 0 /\ index < Len(ordered) THEN ordered[index + 1]
        ELSE [type |-> "none", id |-> null, displayName |-> ""]

getSelectedDevice(s) ==
    IF s.selectedDeviceId = null THEN null
    ELSE IF s.selectedDeviceId \in Range(s.devices) THEN s.selectedDeviceId ELSE null

roomHasDimmable(s) == \E d \in Range(s.devices) : supportsDimmer(d)
roomHasSwitchable(s) == \E d \in Range(s.devices) : supportsSwitch(d)

\* selectors.ts:222-236, for n ordered devices
deviceIndexAmong(n, page, listIndex) ==
    LET totalContentItems == 1 + n
        needNext == totalContentItems > DEVICES_PER_PAGE - 1
        firstPageContentSlots == IF needNext THEN DEVICES_PER_PAGE - 1 ELSE totalContentItems
        firstPageDeviceCount == firstPageContentSlots - 1 - (IF needNext THEN 1 ELSE 0)
        startIndex == firstPageDeviceCount + (page - 1) * (DEVICES_PER_PAGE - 1)
        later == startIndex + (listIndex - 1)
    IN  IF page = 0
        THEN IF listIndex = 1 THEN -1
             ELSE IF listIndex <= 0 THEN -2
             ELSE IF listIndex - 2 >= 0 /\ listIndex - 2 < firstPageDeviceCount
                  THEN listIndex - 2 ELSE -2
        ELSE IF later >= 0 /\ later < n THEN later ELSE -2

getDeviceIndexFromDevicesList(s, page, listIndex) ==
    deviceIndexAmong(Len(getOrderedDevices(s)), page, listIndex)

\* number | null: null is rendered as -1 (no level is negative)
\* Variant that takes the position for the index of the level
getDimLevelWithoutBack(s, listIndex) ==
    IF s.listView # "device-dim" /\ s.listView # "room-all-dim" THEN -1
    ELSE IF listIndex <= 0 \/ listIndex >= Len(DIM_LEVELS) THEN -1
    ELSE DIM_LEVELS[listIndex + 1]

\* selectors.ts:242-250; -1 stands for null
getDimLevelByStateAndIndex(s, listIndex) ==
    IF s.listView # "device-dim" /\ s.listView # "room-all-dim" THEN -1
    ELSE IF listIndex <= 0 THEN -1
    ELSE LET page == s.listPageIndex
             levelIndex == IF page = 0 THEN listIndex - 1
                           ELSE DIM_LEVELS_PER_PAGE + (listIndex - 1)
         IN  IF levelIndex < 0 \/ levelIndex >= Len(DIM_LEVELS) THEN -1
             ELSE DIM_LEVELS[levelIndex + 1]

-----------------------------------------------------------------------------
(* src/src/render/composer.ts *)

\* names are at most LIST_ITEM_NAME_MAX_LEN long, so only the fallback applies
truncateName(name, fallback) == IF name = "" THEN fallback ELSE name

\* A variant of withControls that appends Next to every page, the last included
withControlsAlwaysNext(prevLabel, part, isFirst, isLast) ==
    <<prevLabel>> \o part \o <<LABEL_NEXT>>

\* composer.ts:230-233 (and 266-269, 385-388): the leading control, the page's
\* content part and the trailing Next control
withControls(prevLabel, part, isFirst, isLast) ==
    IF isFirst /\ isLast THEN <<prevLabel>> \o part
    ELSE IF isFirst THEN <<prevLabel>> \o part \o <<LABEL_NEXT>>
    ELSE IF isLast THEN <<prevLabel>> \o part
    ELSE <<prevLabel>> \o part \o <<LABEL_NEXT>>

\* names.map(truncate) over an ordered list of entities (composer.ts:205, 239, 277)
labelsOf(s, ordered, Name(_), fallback) ==
    [i \in 1..Len(ordered) |->
        truncateName(getDisplayName(s, ordered[i], Name(ordered[i])), fallback)]

\* The page layout shared by the scenes, rooms and favorites lists
\* (composer.ts:206-233, 240-269, 367-388): names is the ordered list, empty the
\* labels shown when there is nothing to list
pagedListNames(names, listPageIndex, perPage, empty) ==
    LET n == Len(names)
        firstPageSlots == IF n <= perPage THEN perPage ELSE perPage - 1
        totalPages == IF n <= perPage THEN 1
                      ELSE 1 + Ceil(n - firstPageSlots, perPage)
        page == Min(listPageIndex, totalPages - 1)
        isFirst == page = 0
        isLast == page = totalPages - 1
        contentSlots == IF isFirst THEN firstPageSlots ELSE perPage
        startIndex == IF page = 0 THEN 0 ELSE firstPageSlots + (page - 1) * perPage
        pageNames == Slice(names, startIndex, startIndex + contentSlots)
        padding == IF isFirst /\ isLast THEN <<>> ELSE Fill(contentSlots - Len(pageNames))
        part == pageNames \o padding
        prevLabel == IF isFirst THEN LABEL_BACK ELSE LABEL_PREVIOUS
    IN  IF n = 0 THEN empty ELSE withControls(prevLabel, part, isFirst, isLast)

sceneNamesForListView(s) ==
    pagedListNames(labelsOf(s, getOrderedScenes(s), sceneName, "Scene"),
                   s.listPageIndex, SCENES_PER_PAGE,
                   IF s.status = "loading" THEN <<>> ELSE <<"No scenes">>)

roomNamesForListView(s) ==
    pagedListNames(labelsOf(s, getOrderedRooms(s), roomName, "Room"),
                   s.listPageIndex, ROOMS_PER_PAGE,
                   IF s.roomsStatus = "loading" THEN <<"Loading...">>
                   ELSE IF s.roomsStatus = "error" THEN <<"Failed to load rooms">>
                   ELSE <<"No rooms">>)

\* composer.ts:278-321: the layout of the devices list, with All on its first page
devicesListNames(names, listPageIndex, empty) ==
    LET n == Len(names)
        totalContentItems == 1 + n
        needNext == totalContentItems > DEVICES_PER_PAGE - 1
        firstPageContentSlots == IF needNext THEN DEVICES_PER_PAGE - 1 ELSE totalContentItems
        firstPageDeviceCount == firstPageContentSlots - 1 - (IF needNext THEN 1 ELSE 0)
        totalPages == IF needNext
                      THEN 1 + Ceil(n - firstPageDeviceCount, DEVICES_PER_PAGE - 1)
                      ELSE 1
        page == Min(listPageIndex, Max(0, totalPages - 1))
        isFirst == page = 0
        isLast == page = totalPages - 1
        firstContent == <<LABEL_ALL>> \o Slice(names, 0, firstPageDeviceCount)
        firstPadding == IF isFirst /\ isLast THEN <<>>
                        ELSE Fill(firstPageContentSlots - Len(firstContent))
        startIndex == firstPageDeviceCount + (page - 1) * (DEVICES_PER_PAGE - 1)
        contentSlots == IF isLast /\ n - startIndex < DEVICES_PER_PAGE - 1
                        THEN n - startIndex
                        ELSE DEVICES_PER_PAGE - 1
        pageNames == Slice(names, startIndex, startIndex + contentSlots)
        padding == Fill(contentSlots - Len(pageNames))
    IN  IF n = 0 THEN empty
        ELSE IF isFirst
        THEN (IF isLast THEN <<LABEL_BACK>> \o firstContent \o firstPadding
              ELSE <<LABEL_BACK>> \o firstContent \o firstPadding \o <<LABEL_NEXT>>)
        ELSE <<LABEL_PREVIOUS>> \o pageNames \o padding
             \o (IF isLast THEN <<>> ELSE <<LABEL_NEXT>>)

deviceNamesForListView(s) ==
    devicesListNames(labelsOf(s, getOrderedDevices(s), deviceName, "Device"),
                     s.listPageIndex,
                     IF s.devicesStatus = "loading" THEN <<LABEL_BACK, "Loading...">>
                     ELSE IF s.devicesStatus = "error"
                     THEN <<LABEL_BACK, "Failed to load devices">>
                     ELSE <<LABEL_BACK, "No devices">>)

deviceDetailItemNames(s) ==
    LET device == getSelectedDevice(s)
        base == IF device # null /\ supportsSwitch(device)
                THEN <<LABEL_BACK, "On", "Off">> ELSE <<LABEL_BACK>>
    IN  IF device # null /\ supportsDimmer(device) THEN base \o <<"Dim">> ELSE base

roomAllDetailItemNames(s) ==
    LET base == IF roomHasSwitchable(s) THEN <<LABEL_BACK, "On", "Off">> ELSE <<LABEL_BACK>>
    IN  IF roomHasDimmable(s) THEN base \o <<"Dim">> ELSE base

dimLevelItemNames(s) ==
    LET page == s.listPageIndex
        totalLevels == Len(DIM_LEVELS)
        firstPageSlots == DIM_LEVELS_PER_PAGE
        totalPages == IF totalLevels <= firstPageSlots THEN 1
                      ELSE 1 + Ceil(totalLevels - firstPageSlots, DIM_LEVELS_PER_PAGE)
        isFirst == page = 0
        isLast == page = totalPages - 1
        startIndex == IF page = 0 THEN 0 ELSE firstPageSlots + (page - 1) * DIM_LEVELS_PER_PAGE
        contentSlots == IF isFirst THEN firstPageSlots
                        ELSE IF page = totalPages - 1
                        THEN totalLevels - firstPageSlots - (totalPages - 2) * DIM_LEVELS_PER_PAGE
                        ELSE DIM_LEVELS_PER_PAGE - 1
        levels == Slice(DIM_LEVELS, startIndex, startIndex + contentSlots)
        levelNames == [i \in 1..Len(levels) |-> ToString(levels[i])]
        padding == IF isFirst /\ isLast THEN <<>> ELSE Fill(contentSlots - Len(levelNames))
        part == levelNames \o padding
        prevLabel == IF isFirst THEN LABEL_BACK ELSE LABEL_PREVIOUS
    IN  IF isFirst /\ isLast THEN <<prevLabel>> \o part
        ELSE IF isFirst THEN <<prevLabel>> \o part \o <<LABEL_NEXT>>
        ELSE IF isLast THEN <<prevLabel>> \o part
        ELSE <<prevLabel>> \o part \o <<LABEL_NEXT>>

\* composer.ts:368: the display names of the ordered favorites
favoriteLabels(favorites) ==
    [i \in 1..Len(favorites) |-> truncateName(favorites[i].displayName, "Scene")]

favoriteNamesForListView(s) ==
    pagedListNames(favoriteLabels(getOrderedFavorites(s)), s.listPageIndex, SCENES_PER_PAGE,
                   <<LABEL_BACK, "No favorites">>)

MAIN_MENU_LABELS(item) ==
    IF item = "scenes" THEN "Scenes" ELSE IF item = "devices" THEN "Devices" ELSE "Favorites"

listItemNamesForState(s) ==
    IF s.listView = "main"
    THEN LET items == getMainMenuOrderedItems(s)
         IN  [i \in 1..Len(items) |-> MAIN_MENU_LABELS(items[i])]
    ELSE IF s.listView = "scenes" THEN sceneNamesForListView(s)
    ELSE IF s.listView = "rooms" THEN roomNamesForListView(s)
    ELSE IF s.listView = "favorites" THEN favoriteNamesForListView(s)
    ELSE IF s.listView = "device-detail" THEN deviceDetailItemNames(s)
    ELSE IF s.listView = "device-dim" THEN dimLevelItemNames(s)
    ELSE IF s.listView = "room-all-detail" THEN roomAllDetailItemNames(s)
    ELSE IF s.listView = "room-all-dim" THEN dimLevelItemNames(s)
    ELSE deviceNamesForListView(s)

getLastListIndex(s) == Max(0, Len(listItemNamesForState(s)) - 1)

\* A variant of pagedTotalPages that counts the first page as a full page
pagedTotalPagesFullFirstPage(n, perPage) ==
    IF n <= perPage THEN 1 ELSE 1 + Ceil(n - perPage, perPage)

\* 1 + ceil((n - first) / perPage) of the scenes, rooms and favorites branches
pagedTotalPages(n, perPage) ==
    IF n = 0 THEN 1
    ELSE LET first == IF n <= perPage THEN perPage ELSE perPage - 1
         IN  IF n <= perPage THEN 1 ELSE 1 + Ceil(n - first, perPage)

getTotalPages(s) ==
    IF s.listView = "main" THEN 1
    ELSE IF s.listView = "favorites"
         THEN pagedTotalPages(Len(getOrderedFavorites(s)), SCENES_PER_PAGE)
    ELSE IF s.listView = "device-detail" \/ s.listView = "room-all-detail" THEN 1
    ELSE IF s.listView = "device-dim" \/ s.listView = "room-all-dim"
         THEN (IF Len(DIM_LEVELS) <= DIM_LEVELS_PER_PAGE THEN 1
               ELSE 1 + Ceil(Len(DIM_LEVELS) - DIM_LEVELS_PER_PAGE, DIM_LEVELS_PER_PAGE))
    ELSE IF s.listView = "scenes"
         THEN pagedTotalPages(Len(getOrderedScenes(s)), SCENES_PER_PAGE)
    ELSE IF s.listView = "rooms"
         THEN pagedTotalPages(Len(getOrderedRooms(s)), ROOMS_PER_PAGE)
    ELSE IF s.listView = "devices"
         THEN LET n == Len(getOrderedDevices(s))
                  totalContentItems == 1 + n
                  needNext == totalContentItems > DEVICES_PER_PAGE - 1
                  firstPageDeviceCount == IF needNext THEN DEVICES_PER_PAGE - 1 - 1 - 1 ELSE n
              IN  IF n = 0 THEN 1
                  ELSE IF needNext
                       THEN 1 + Ceil(n - firstPageDeviceCount, DEVICES_PER_PAGE - 1)
                       ELSE 1
    ELSE 1

getFirstPageContentSlots(s) ==
    IF s.listView = "main" THEN Len(getMainMenuOrderedItems(s))
    ELSE IF s.listView = "favorites"
         THEN (IF Len(getOrderedFavorites(s)) <= SCENES_PER_PAGE
               THEN SCENES_PER_PAGE ELSE SCENES_PER_PAGE - 1)
    ELSE IF s.listView = "device-detail" THEN Len(deviceDetailItemNames(s)) - 1
    ELSE IF s.listView = "room-all-detail" THEN Len(roomAllDetailItemNames(s)) - 1
    ELSE IF s.listView = "device-dim" \/ s.listView = "room-all-dim" THEN DIM_LEVELS_PER_PAGE
    ELSE IF s.listView = "scenes"
         THEN (IF Len(s.scenes) <= SCENES_PER_PAGE THEN SCENES_PER_PAGE ELSE SCENES_PER_PAGE - 1)
    ELSE IF s.listView = "rooms"
         THEN (IF Len(s.rooms) <= ROOMS_PER_PAGE THEN ROOMS_PER_PAGE ELSE ROOMS_PER_PAGE - 1)
    ELSE IF s.listView = "devices"
         THEN LET n == Len(s.devices)
                  totalContentItems == 1 + n
                  needNext == totalContentItems > DEVICES_PER_PAGE - 1
              IN  IF n = 0 THEN 1
                  ELSE IF needNext THEN DEVICES_PER_PAGE - 1 ELSE totalContentItems
    ELSE 1

-----------------------------------------------------------------------------
(* src/src/state/reducer.ts *)

DEFAULT_PREFERENCES ==
    [listOrder |-> [scenes |-> "alphabetical", rooms |-> "alphabetical",
                    devices |-> "alphabetical", favorites |-> "alphabetical",
                    main |-> "alphabetical"],
     listOrderCustomIds |-> [scenes |-> <<>>, rooms |-> <<>>, devices |-> <<>>,
                             favorites |-> <<>>, main |-> MAIN_MENU_ITEMS],
     favoritesIds |-> <<>>]

buildInitialState ==
    [listView |-> "main", scenes |-> <<>>, listPageIndex |-> 0, status |-> "loading",
     rooms |-> <<>>, roomsStatus |-> "idle", selectedRoomId |-> null,
     devices |-> <<>>, devicesStatus |-> "idle", selectedDeviceId |-> null,
     focusedListIndex |-> 0, preferences |-> DEFAULT_PREFERENCES, allDevices |-> <<>>]

\* Variant that never clears the selected device
reduceNavViewKeepsDevice(s, view) ==
    LET base == [s EXCEPT !.listView = view, !.listPageIndex = 0, !.focusedListIndex = 0]
    IN  IF view = "rooms" THEN [base EXCEPT !.roomsStatus = "loading"] ELSE base

\* Variant that leaves the focused position where the tap put it
reduceNavViewKeepsFocus(s, view) ==
    LET base == [s EXCEPT !.listView = view, !.listPageIndex = 0]
        rooms == IF view = "rooms" THEN [base EXCEPT !.roomsStatus = "loading"] ELSE base
    IN  IF view = "device-detail" \/ view = "device-dim" THEN rooms
        ELSE [rooms EXCEPT !.selectedDeviceId = null]

\* reducer.ts:16-30, the case NAV_VIEW
reduceNavView(s, view) ==
    LET base == [s EXCEPT !.listView = view, !.listPageIndex = 0, !.focusedListIndex = 0]
        rooms == IF view = "rooms" THEN [base EXCEPT !.roomsStatus = "loading"] ELSE base
    IN  IF view = "device-detail" \/ view = "device-dim" THEN rooms
        ELSE [rooms EXCEPT !.selectedDeviceId = null]

reduce(s, action) ==
    CASE action.type = "TAP" -> [s EXCEPT !.focusedListIndex = action.selectedIndex]
      [] action.type = "LIST_PAGE" -> [s EXCEPT !.listPageIndex = action.pageIndex]
      [] action.type = "NAV_VIEW" -> reduceNavView(s, action.view)
      [] action.type = "NAV_ROOM" ->
            [s EXCEPT !.listView = "devices", !.listPageIndex = 0, !.focusedListIndex = 0,
                      !.selectedRoomId = action.roomId, !.devicesStatus = "loading"]
      [] action.type = "NAV_DEVICE" ->
            [s EXCEPT !.listView = "device-detail", !.listPageIndex = 0,
                      !.focusedListIndex = 0, !.selectedDeviceId = action.deviceId]
      [] action.type = "NAV_FAVORITE_DEVICE" ->
            [s EXCEPT !.listView = "device-detail", !.listPageIndex = 0,
                      !.focusedListIndex = 0, !.selectedDeviceId = action.deviceId,
                      !.selectedRoomId = null, !.devices = s.allDevices]
      [] action.type = "NAV_ROOM_ALL" ->
            [s EXCEPT !.listView = "room-all-detail", !.listPageIndex = 0,
                      !.focusedListIndex = 0, !.selectedDeviceId = null]
      [] action.type = "SCENES_LOADED" ->
            [s EXCEPT !.scenes = SortByName(action.scenes), !.listPageIndex = 0,
                      !.status = "ready"]
      [] action.type = "SCENES_ERROR" -> [s EXCEPT !.status = "error"]
      [] action.type = "ROOMS_LOADING" -> [s EXCEPT !.roomsStatus = "loading"]
      [] action.type = "ROOMS_LOADED" ->
            [s EXCEPT !.rooms = SortByName(action.rooms), !.roomsStatus = "ready",
                      !.listPageIndex = 0]
      [] action.type = "ROOMS_ERROR" -> [s EXCEPT !.roomsStatus = "error"]
      [] action.type = "DEVICES_LOADING" -> [s EXCEPT !.devicesStatus = "loading"]
      [] action.type = "DEVICES_LOADED" ->
            [s EXCEPT !.devices = SortByName(action.devices), !.devicesStatus = "ready",
                      !.listPageIndex = 0]
      [] action.type = "DEVICES_ERROR" -> [s EXCEPT !.devicesStatus = "error"]
      [] action.type = "ALL_DEVICES_LOADED" ->
            [s EXCEPT !.allDevices = SortByName(action.devices)]
      [] action.type = "EXECUTE_START" -> [s EXCEPT !.status = "executing"]
      [] action.type = "EXECUTE_END" ->
            [s EXCEPT !.status = IF action.success THEN "done" ELSE "error"]
      [] action.type = "PREFERENCES_LOADED" -> [s EXCEPT !.preferences = action.preferences]
      [] action.type = "SET_LIST_ORDER" ->
            LET next == [s EXCEPT !.preferences.listOrder[action.list] = action.preference]
            IN  IF "customIds" \in DOMAIN action
                THEN [next EXCEPT !.preferences.listOrderCustomIds[action.list] =
                                      action.customIds]
                ELSE next
      [] action.type = "SET_FAVORITES" ->
            [s EXCEPT !.preferences.favoritesIds = action.favoritesIds]
      [] action.type \in {"STATS_GLOBAL", "STATS_ROOM", "STATS_DEVICE"} ->
            s   \* reducer.ts:145-152: only the stats, which the record leaves out
      [] OTHER -> s

\* store.dispatch applied to a list of actions in turn
RECURSIVE dispatchAll(_, _)
dispatchAll(s, actions) ==
    IF actions = <<>> THEN s ELSE dispatchAll(reduce(s, Head(actions)), Tail(actions))

-----------------------------------------------------------------------------
(* src/src/app.ts: commitTap, the view/command router *)

Target(kind, index) == [kind |-> kind, index |-> index]

\* A variant of actualIndex that takes every page to hold perPage entities
actualIndexUniformPages(s, page, listIndex, perPage) == page * perPage + (listIndex - 1)

\* app.ts:1367-1369, 1393-1395, 1429-1431: tapped position -> index in the ordered list
actualIndex(s, page, listIndex, perPage) ==
    LET firstSlots == getFirstPageContentSlots(s)
    IN  IF page = 0 THEN listIndex - 1
        ELSE firstSlots + (page - 1) * perPage + (listIndex - 1)

\* Variant that takes slot 0 for Back on every page
structuralTargetBackOnEveryPage(s, listIndex) ==
    IF listIndex = 0 THEN Target("back", 0)
    ELSE IF s.listPageIndex # getTotalPages(s) - 1 /\ listIndex = getLastListIndex(s)
    THEN Target("next", 0)
    ELSE Target("none", 0)

\* app.ts:1349-1366 (and the same lines of the favorites, rooms and devices branches)
structuralTarget(s, listIndex) ==
    LET page == s.listPageIndex
        isFirst == page = 0
        isLast == page = getTotalPages(s) - 1
    IN  IF listIndex = 0 THEN (IF isFirst THEN Target("back", 0) ELSE Target("previous", 0))
        ELSE IF ~isLast /\ listIndex = getLastListIndex(s) THEN Target("next", 0)
        ELSE Target("none", 0)

\* app.ts:1367-1372 (and 1393-1397, 1429-1433): the entity at index a of the
\* ordered list, when there is one
entityAt(s, a) ==
    IF s.listView = "scenes" THEN a >= 0 /\ a < Len(getOrderedScenes(s))
    ELSE IF s.listView = "favorites" THEN getFavoriteByIndex(s, a).type # "none"
    ELSE getRoomByIndex(s, a) # null

\* app.ts:1439-1462: the devices list resolves a position through the selector
deviceTarget(s, deviceIndex) ==
    IF deviceIndex = -1 THEN Target("all", 0)
    ELSE IF deviceIndex >= 0 /\ getDeviceByIndex(s, deviceIndex) # null
    THEN Target("entity", deviceIndex)
    ELSE Target("none", 0)

\* app.ts:1304-1469 once the structural controls of the page are told apart
targetGiven(s, listIndex, structural, a) ==
    LET page == s.listPageIndex
    IN  IF s.listView = "device-dim" \/ s.listView = "room-all-dim"
        THEN IF listIndex = 0
             THEN (IF page = 0 THEN Target("back", 0) ELSE Target("previous", 0))
             ELSE LET level == getDimLevelByStateAndIndex(s, listIndex)
                  IN  IF level # -1 THEN Target("level", level) ELSE Target("none", 0)
        ELSE IF s.listView \in {"scenes", "favorites", "rooms"}
        THEN IF structural.kind # "none" THEN structural
             ELSE IF entityAt(s, a) THEN Target("entity", a) ELSE Target("none", 0)
        ELSE IF s.listView = "devices"
        THEN IF structural.kind # "none" THEN structural
             ELSE deviceTarget(s, getDeviceIndexFromDevicesList(s, page, listIndex))
        ELSE Target("none", 0)

\* What a committed single tap at listIndex resolves to on a list screen:
\* a structural control, the synthetic All entry, the entity at an index of the
\* ordered list, a dim level, or nothing (app.ts:1304-1469)
singleTapTarget(s, listIndex) ==
    targetGiven(s, listIndex, structuralTarget(s, listIndex),
                actualIndex(s, s.listPageIndex, listIndex,
                            IF s.listView = "rooms" THEN ROOMS_PER_PAGE ELSE SCENES_PER_PAGE))

Effects(acts, refresh, load, cmd) ==
    [acts |-> acts, refresh |-> refresh, load |-> load, cmd |-> cmd]

NoEffects == Effects(<<>>, FALSE, {}, <<"none">>)

NavView(view) == [type |-> "NAV_VIEW", view |-> view]
ListPage(pageIndex) == [type |-> "LIST_PAGE", pageIndex |-> pageIndex]

\* Variant that knows no partial outcome
confirmationResultAllOrNothing(successCount, total) ==
    IF total > 0 /\ successCount = total THEN "success" ELSE "failure"

\* app.ts:546-550
confirmationResultFromCounts(successCount, total) ==
    IF total = 0 \/ successCount = 0 THEN "failure"
    ELSE IF successCount = total THEN "success"
    ELSE "partial"

\* app.ts:569-581: the confirmations runExecuteScene shows for an answer with the
\* given status and counts[1] accepted or completed results out of counts[2]
sceneConfirmations(status, counts) ==
    IF counts[2] > 0 THEN <<confirmationResultFromCounts(counts[1], counts[2])>>
    ELSE IF status = "success" THEN <<"success">>
    ELSE IF status = "partial" \/ status = "completed_with_errors" THEN <<"partial">>
    ELSE <<"failure">>

\* Variant that confirms a thrown call in the try block and again in the catch
deviceConfirmationsTwiceOnThrow(outcome) ==
    IF outcome = "accepted" THEN <<"success">>
    ELSE IF outcome = "failed" THEN <<"failure">>
    ELSE <<"failure", "failure">>

\* app.ts:1140-1145 and 1155-1172: the confirmations of a device command
deviceConfirmations(outcome) ==
    IF outcome = "accepted" THEN <<"success">> ELSE <<"failure">>

\* app.ts:1177-1180 and 1194 (1199-1202 and 1217): the confirmations of a batch
batchConfirmations(successCount, total) ==
    IF total = 0 THEN <<"failure">>
    ELSE <<confirmationResultFromCounts(successCount, total)>>

\* Variant that starts the execution whatever the status
runExecuteSceneUnguarded(s, listIndex, selectedIndex) ==
    LET tap == [type |-> "TAP", selectedIndex |-> listIndex]
        scene == getSceneByIndex(s, selectedIndex)
    IN  IF scene = null
        THEN Effects(<<tap>>, FALSE, {}, <<"none">>)
        ELSE Effects(<<tap, [type |-> "EXECUTE_START"]>>, FALSE,
                     {<<"execute", scene>>}, <<"executeScene", scene>>)

\* app.ts:552-589 runExecuteScene up to its first await, called after TAP was dispatched
runExecuteScene(s, listIndex, selectedIndex) ==
    LET tap == [type |-> "TAP", selectedIndex |-> listIndex]
        scene == getSceneByIndex(s, selectedIndex)
    IN  IF scene = null \/ s.status = "executing"
        THEN Effects(<<tap>>, FALSE, {}, <<"none">>)
        ELSE Effects(<<tap, [type |-> "EXECUTE_START"]>>, FALSE,
                     {<<"execute", scene>>}, <<"executeScene", scene>>)

\* position of the first scene with the given id in the ordered scenes, or -1
sceneFindIndex(s, id) ==
    LET ordered == getOrderedScenes(s)
        hits == {i \in 1..Len(ordered) : ordered[i] = id}
    IN  IF hits = {} THEN -1 ELSE (CHOOSE i \in hits : \A j \in hits : i <= j) - 1

\* app.ts:1244-1257
commitMain(s, listIndex, count) ==
    LET views == getMainMenuOrderedViews(s)
    IN  IF count = 1 /\ listIndex >= 0 /\ listIndex < Len(views)
        THEN Effects(<<NavView(views[listIndex + 1])>>, TRUE,
                     IF views[listIndex + 1] = "rooms" THEN {<<"rooms", 0>>} ELSE {},
                     <<"none">>)
        ELSE NoEffects

\* app.ts:1276-1296: the parent screen a double tap on a first page goes to
doubleTapParent(s) ==
    IF s.listView = "devices" THEN <<NavView("rooms")>>
    ELSE IF s.listView = "room-all-detail" THEN <<NavView("devices")>>
    ELSE IF s.listView = "room-all-dim" THEN <<NavView("room-all-detail")>>
    ELSE IF s.listView = "rooms" THEN <<NavView("main")>>
    ELSE IF s.listView = "scenes" THEN <<NavView("main")>>
    ELSE IF s.listView = "favorites" THEN <<NavView("main")>>
    ELSE IF s.listView = "device-dim" THEN <<NavView("device-detail")>>
    ELSE <<>>

\* app.ts:1398-1411: a favorite is a scene to execute or a device to open
commitFavorite(s, listIndex, favorite) ==
    IF favorite.type = "scene"
    THEN LET sceneIndex == sceneFindIndex(s, favorite.id)
         IN  IF sceneIndex >= 0 THEN runExecuteScene(s, listIndex, sceneIndex) ELSE NoEffects
    ELSE Effects(<<[type |-> "NAV_FAVORITE_DEVICE", deviceId |-> favorite.id]>>,
                 TRUE, {}, <<"none">>)

\* app.ts:1434-1437: a room is opened and its devices are requested
commitRoom(room) ==
    Effects(<<[type |-> "NAV_ROOM", roomId |-> room]>>, TRUE, {<<"devices", room>>}, <<"none">>)

\* app.ts:1304-1470 once the tapped position is resolved to target
commitTarget(s, listIndex, target) ==
    LET page == s.listPageIndex
        hasSwitch == roomHasSwitchable(s)
        hasDim == roomHasDimmable(s)
    IN  IF s.listView = "device-dim"
        THEN IF target.kind = "back" THEN Effects(<<NavView("device-detail")>>, TRUE, {}, <<"none">>)
             ELSE IF target.kind = "previous" THEN Effects(<<ListPage(page - 1)>>, TRUE, {}, <<"none">>)
             ELSE IF s.selectedDeviceId # null /\ target.kind = "level"
                  THEN Effects(<<>>, FALSE, {}, <<"setLevel", s.selectedDeviceId, target.index>>)
             ELSE NoEffects
        ELSE IF s.listView = "room-all-dim"
        THEN IF target.kind = "back" THEN Effects(<<NavView("room-all-detail")>>, TRUE, {}, <<"none">>)
             ELSE IF target.kind = "previous" THEN Effects(<<ListPage(page - 1)>>, TRUE, {}, <<"none">>)
             ELSE IF target.kind = "level"
                  THEN Effects(<<>>, FALSE, {}, <<"allSetLevel", target.index>>)
             ELSE NoEffects
        ELSE IF s.listView = "room-all-detail"
        THEN IF listIndex = 0 THEN Effects(<<NavView("devices")>>, TRUE, {}, <<"none">>)
             ELSE IF hasSwitch /\ listIndex = 1 THEN Effects(<<>>, FALSE, {}, <<"allSwitch", TRUE>>)
             ELSE IF hasSwitch /\ listIndex = 2 THEN Effects(<<>>, FALSE, {}, <<"allSwitch", FALSE>>)
             ELSE IF hasDim /\ (IF hasSwitch THEN listIndex = 3 ELSE listIndex = 1)
                  THEN Effects(<<NavView("room-all-dim")>>, TRUE, {}, <<"none">>)
             ELSE NoEffects
        ELSE IF target.kind = "back"
        THEN Effects(<<NavView(IF s.listView = "devices" THEN "rooms" ELSE "main")>>,
                     TRUE, {}, <<"none">>)
        ELSE IF target.kind = "previous" THEN Effects(<<ListPage(page - 1)>>, TRUE, {}, <<"none">>)
        ELSE IF target.kind = "next" THEN Effects(<<ListPage(page + 1)>>, TRUE, {}, <<"none">>)
        ELSE IF s.listView = "scenes" /\ target.kind = "entity"
        THEN runExecuteScene(s, listIndex, target.index)
        ELSE IF s.listView = "favorites" /\ target.kind = "entity"
        THEN commitFavorite(s, listIndex, getFavoriteByIndex(s, target.index))
        ELSE IF s.listView = "rooms" /\ target.kind = "entity"
        THEN commitRoom(getRoomByIndex(s, target.index))
        ELSE IF s.listView = "devices" /\ target.kind = "all"
        THEN Effects(<<[type |-> "NAV_ROOM_ALL"]>>, TRUE, {}, <<"none">>)
        ELSE IF s.listView = "devices" /\ target.kind = "entity"
        THEN Effects(<<[type |-> "NAV_DEVICE", deviceId |-> getDeviceByIndex(s, target.index)]>>,
                     TRUE, {}, <<"none">>)
        ELSE NoEffects

\* app.ts:1304-1470: a committed single tap on a paginated list
commitSingleTap(s, listIndex) == commitTarget(s, listIndex, singleTapTarget(s, listIndex))

\* Variant whose triple tap shows the next page
commitOnPageTripleNext(s, listIndex, count, totalPages) ==
    LET page == s.listPageIndex
        isFirst == page = 0
        isLast == page = totalPages - 1
    IN  IF count = 2 /\ ~isFirst
        THEN Effects(<<ListPage(page - 1)>>, TRUE, {}, <<"none">>)
        ELSE IF count = 2 /\ isFirst /\ (listIndex = 0 \/ s.listView # "rooms")
        THEN Effects(doubleTapParent(s), TRUE, {}, <<"none">>)
        ELSE IF count >= 3 /\ ~isLast
        THEN Effects(<<ListPage(page + 1)>>, TRUE, {}, <<"none">>)
        ELSE IF count = 1 THEN commitSingleTap(s, listIndex)
        ELSE NoEffects

\* app.ts:1259-1474, with totalPages = getTotalPages(state) (app.ts:1238)
commitOnPage(s, listIndex, count, totalPages) ==
    LET page == s.listPageIndex
        isFirst == page = 0
        isLast == page = totalPages - 1
    IN  IF count = 2 /\ ~isFirst
        THEN Effects(<<ListPage(page - 1)>>, TRUE, {}, <<"none">>)
        ELSE IF count = 2 /\ isFirst /\ (listIndex = 0 \/ s.listView # "rooms")
        THEN Effects(doubleTapParent(s), TRUE, {}, <<"none">>)
        ELSE IF count >= 3 /\ ~isLast
        THEN Effects(<<ListPage(totalPages - 1)>>, TRUE, {}, <<"none">>)
        ELSE IF count = 1 THEN commitSingleTap(s, listIndex)
        ELSE NoEffects

commitPaginated(s, listIndex, count) == commitOnPage(s, listIndex, count, getTotalPages(s))

\* Variant that expects Dim on position 3 whether or not On and Off are shown
commitDeviceDetailDimAtThree(s, listIndex, count) ==
    LET deviceId == s.selectedDeviceId
        device == getSelectedDevice(s)
        hasSwitch == device # null /\ supportsSwitch(device)
        hasDim == device # null /\ supportsDimmer(device)
        parent == IF s.selectedRoomId = null THEN "favorites" ELSE "devices"
    IN  IF count = 2 THEN Effects(<<NavView(parent)>>, TRUE, {}, <<"none">>)
        ELSE IF count = 1
        THEN IF listIndex = 0 THEN Effects(<<NavView(parent)>>, TRUE, {}, <<"none">>)
             ELSE IF deviceId # null /\ hasSwitch /\ listIndex = 1
                  THEN Effects(<<>>, FALSE, {}, <<"switch", deviceId, TRUE>>)
             ELSE IF deviceId # null /\ hasSwitch /\ listIndex = 2
                  THEN Effects(<<>>, FALSE, {}, <<"switch", deviceId, FALSE>>)
             ELSE IF deviceId # null /\ hasDim /\ listIndex = 3
                  THEN Effects(<<NavView("device-dim")>>, TRUE, {}, <<"none">>)
             ELSE NoEffects
        ELSE NoEffects

\* Variant whose Back always returns to the devices screen
commitDeviceDetailBackToDevices(s, listIndex, count) ==
    LET deviceId == s.selectedDeviceId
        device == getSelectedDevice(s)
        hasSwitch == device # null /\ supportsSwitch(device)
        hasDim == device # null /\ supportsDimmer(device)
    IN  IF count = 2 THEN Effects(<<NavView("devices")>>, TRUE, {}, <<"none">>)
        ELSE IF count = 1
        THEN IF listIndex = 0 THEN Effects(<<NavView("devices")>>, TRUE, {}, <<"none">>)
             ELSE IF deviceId # null /\ hasSwitch /\ listIndex = 1
                  THEN Effects(<<>>, FALSE, {}, <<"switch", deviceId, TRUE>>)
             ELSE IF deviceId # null /\ hasSwitch /\ listIndex = 2
                  THEN Effects(<<>>, FALSE, {}, <<"switch", deviceId, FALSE>>)
             ELSE IF deviceId # null /\ hasDim /\ (IF hasSwitch THEN listIndex = 3 ELSE listIndex = 1)
                  THEN Effects(<<NavView("device-dim")>>, TRUE, {}, <<"none">>)
             ELSE NoEffects
        ELSE NoEffects

\* app.ts:1476-1507
commitDeviceDetail(s, listIndex, count) ==
    LET deviceId == s.selectedDeviceId
        device == getSelectedDevice(s)
        hasSwitch == device # null /\ supportsSwitch(device)
        hasDim == device # null /\ supportsDimmer(device)
        parent == IF s.selectedRoomId = null THEN "favorites" ELSE "devices"
    IN  IF count = 2 THEN Effects(<<NavView(parent)>>, TRUE, {}, <<"none">>)
        ELSE IF count = 1
        THEN IF listIndex = 0 THEN Effects(<<NavView(parent)>>, TRUE, {}, <<"none">>)
             ELSE IF deviceId # null /\ hasSwitch /\ listIndex = 1
                  THEN Effects(<<>>, FALSE, {}, <<"switch", deviceId, TRUE>>)
             ELSE IF deviceId # null /\ hasSwitch /\ listIndex = 2
                  THEN Effects(<<>>, FALSE, {}, <<"switch", deviceId, FALSE>>)
             ELSE IF deviceId # null /\ hasDim /\ (IF hasSwitch THEN listIndex = 3 ELSE listIndex = 1)
                  THEN Effects(<<NavView("device-dim")>>, TRUE, {}, <<"none">>)
             ELSE NoEffects
        ELSE NoEffects

\* app.ts:1234-1511: what commitTap dispatches and starts for the tap (listIndex, count)
commitEffects(s, listIndex, count) ==
    IF s.listView = "main" THEN commitMain(s, listIndex, count)
    ELSE IF s.listView = "device-detail" THEN commitDeviceDetail(s, listIndex, count)
    ELSE commitPaginated(s, listIndex, count)

-----------------------------------------------------------------------------
(* src/src/input/actions.ts and the gesture session of src/src/app.ts *)

TAP_WINDOW_MS == IF useRealGlasses THEN 800 ELSE 400
TAP_COMMIT_MS == IF useRealGlasses THEN 800 ELSE 450
SCROLL_WINDOW_MS == 400

\* Time is observed every TimeStep milliseconds and at the instant a timer is due:
\* the ages 0, 200, 400, 450, 600, 800 and beyond fall on every side of each window
TimeStep == SCROLL_WINDOW_MS \div 2

\* now - lastTapTime is only compared with the windows: it is kept up to AgeCap
AgeCap == TAP_COMMIT_MS + TimeStep
\* an entry of the scroll history older than this is dropped by the next event
RecentAgeCap == SCROLL_WINDOW_MS + TimeStep

\* The list positions raw events carry: those of the displayed list (position 0
\* when the list is empty)
Positions == 0..Max(Len(labels) - 1, 0)

EventTypes == {"click", "double", "absent", "other", "scroll_top", "scroll_bottom"}

\* The events the hub delivers: a list event with a position and an event type,
\* a system event, which is the double click (type 3) or another one, or an
\* event with neither part
HubEvents ==
    [channel : {"list"}, eventType : EventTypes \ {"scroll_top", "scroll_bottom"},
     index : Positions]
    \cup [channel : {"list"}, eventType : {"scroll_top", "scroll_bottom"}, index : {0}]
    \cup [channel : {"sys"}, eventType : {"double", "other"}, index : {0}]
    \cup [channel : {"none"}, eventType : {"absent"}, index : {0}]

NoAction == [type |-> "none"]

mapEvenHubEvent(event, s) ==
    IF event.channel = "none" THEN NoAction
    ELSE IF event.channel = "sys"
    THEN IF event.eventType = "double"
         THEN [type |-> "TAP", selectedIndex |-> s.focusedListIndex, gestureTaps |-> 2]
         ELSE NoAction
    ELSE IF event.eventType = "double"
         THEN [type |-> "TAP", selectedIndex |-> event.index, gestureTaps |-> 2]
    ELSE IF event.eventType = "click" \/ event.eventType = "absent"
         THEN [type |-> "TAP", selectedIndex |-> event.index, gestureTaps |-> 1]
    ELSE IF event.eventType # "scroll_top" /\ event.eventType # "scroll_bottom"
         THEN [type |-> "TAP", selectedIndex |-> event.index, gestureTaps |-> 1]
    ELSE NoAction

\* app.ts:1523-1528: entries older than the scroll window are shifted off the front
RECURSIVE shiftOld(_)
shiftOld(recent) ==
    IF recent = <<>> THEN recent
    ELSE IF Head(recent).age <= SCROLL_WINDOW_MS THEN recent
    ELSE shiftOld(Tail(recent))

\* app.ts:1529-1530
likelyScrolling(recent) == Cardinality({recent[i].index : i \in 1..Len(recent)}) >= 2

\* A variant of isSameItemAgain whose window excludes its last instant
isSameItemAgainBeforeWindowEnd(listIndex) ==
    listIndex = lastTapIndex /\ lastTapAge < TAP_WINDOW_MS

\* app.ts:1532
isSameItemAgain(listIndex) == listIndex = lastTapIndex /\ lastTapAge <= TAP_WINDOW_MS

\* A variant of nextTapCount that adds to the count whatever the position
nextTapCountAlwaysAdds(same, gestureTaps) == Min(tapCount + gestureTaps, 4)

\* A variant of nextTapCount that counts beyond four
nextTapCountUncapped(same, gestureTaps) ==
    IF same THEN tapCount + gestureTaps ELSE gestureTaps

\* app.ts:1534-1537
nextTapCount(same, gestureTaps) ==
    IF same THEN Min(tapCount + gestureTaps, 4) ELSE Min(gestureTaps, 4)

\* A variant of skipCommitForScroll that never suppresses a commit
skipCommitNever(isNewItemSingleTap, scrolling) == FALSE

\* A variant of skipCommitForScroll that suppresses every event seen while scrolling
skipCommitWheneverScrolling(isNewItemSingleTap, scrolling) == scrolling

\* app.ts:1543
skipCommitForScroll(isNewItemSingleTap, scrolling) == isNewItemSingleTap /\ scrolling

\* A variant of clearTimeout that leaves the timer pending
clearTimeoutForgotten(pending, id) == pending

\* clearTimeout(id) of the runtime (app.ts:1542)
clearTimeout(pending, id) == {t \in pending : t.id # id}

\* setTimeout: the handle of the new timer
freshTimerId(pending) ==
    CHOOSE id \in 1..(Cardinality(pending) + 1) : \A t \in pending : t.id # id

\* A variant of neutralSession that leaves the accumulated count in place
staleSession == [lastTapIndex |-> -1, tapCount |-> tapCount]

\* app.ts:1254-1255 (and the end of every other path of commitTap)
neutralSession == [lastTapIndex |-> -1, tapCount |-> 0]

-----------------------------------------------------------------------------
(* Pagination: the composer and the router's index mapping, page by page *)

\* A fetched collection of n entities in the order the cloud returns it
Fetched(n) == [i \in 1..n |-> IF i % 2 = 1 THEN n - ((i - 1) \div 2) ELSE i \div 2]

\* A saved custom order: the last entity, an entity that no longer exists, the second
CustomIds(n) == <<n, n + 1, 2>>

\* n saved favorites, scenes and devices mixed, all of them known to the store
Favorites(n) ==
    [i \in 1..n |-> [type |-> IF i % 3 = 0 THEN "device" ELSE "scene", id |-> Fetched(n)[i]]]

OrderPreferences == {"alphabetical", "reverse", "custom"}

\* The stored preferences with one order preference for every list
PreferencesWith(order, n, favoritesIds) ==
    [listOrder |-> [scenes |-> order, rooms |-> order, devices |-> order,
                    favorites |-> order, main |-> order],
     listOrderCustomIds |-> [scenes |-> CustomIds(n), rooms |-> CustomIds(n),
                             devices |-> CustomIds(n), favorites |-> <<>>,
                             main |-> MAIN_MENU_ITEMS],
     favoritesIds |-> favoritesIds]

\* The dispatches that bring the store to screen `view` over a collection of n entities
ScreenActions(view, n, order, loaded) ==
    LET prefs == [type |-> "PREFERENCES_LOADED",
                  preferences |-> PreferencesWith(order, n,
                                     IF view = "favorites" \/ view = "main"
                                     THEN Favorites(n) ELSE <<>>)]
        scenes == [type |-> "SCENES_LOADED", scenes |-> Fetched(n)]
        rooms == [type |-> "ROOMS_LOADED", rooms |-> Fetched(n)]
        all == [type |-> "ALL_DEVICES_LOADED", devices |-> Fetched(n)]
        devices == [type |-> "DEVICES_LOADED", devices |-> Fetched(n)]
        room == [type |-> "NAV_ROOM", roomId |-> 1]
    IN  IF view = "main" THEN <<prefs>>
        ELSE IF view = "scenes"
        THEN <<prefs>> \o (IF loaded THEN <<scenes>> ELSE <<>>) \o <<NavView("scenes")>>
        ELSE IF view = "favorites" THEN <<prefs, scenes, all, NavView("favorites")>>
        ELSE IF view = "rooms"
        THEN <<prefs, NavView("rooms")>> \o (IF loaded THEN <<rooms, all>> ELSE <<>>)
        ELSE LET inRoom == <<prefs, rooms, all, room>>
                           \o (IF loaded THEN <<devices>> ELSE <<>>)
             IN  IF view = "devices" THEN inRoom
                 ELSE IF view = "device-detail"
                 THEN inRoom \o <<[type |-> "NAV_DEVICE", deviceId |-> n]>>
                 ELSE IF view = "device-dim"
                 THEN inRoom \o <<[type |-> "NAV_DEVICE", deviceId |-> n],
                                  NavView("device-dim")>>
                 ELSE IF view = "room-all-detail" THEN inRoom \o <<[type |-> "NAV_ROOM_ALL"]>>
                 ELSE inRoom \o <<[type |-> "NAV_ROOM_ALL"], NavView("room-all-dim")>>

ScreenState(view, n, order, loaded) ==
    dispatchAll(buildInitialState, ScreenActions(view, n, order, loaded))

PagedViews == {"scenes", "rooms", "favorites", "devices"}
DimViews == {"device-dim", "room-all-dim"}

StructuralLabels == {LABEL_BACK, LABEL_PREVIOUS, LABEL_NEXT, LABEL_ALL, ""}

\* The content labels of a page: everything but the controls, All and the padding
ContentLabels(names) == Filter(names, LAMBDA x : x \notin StructuralLabels)

\* The labels of the ordered sequence the current screen lists
OrderedLabels(s) ==
    IF s.listView = "scenes"
    THEN LET ordered == getOrderedScenes(s)
         IN  [i \in 1..Len(ordered) |-> sceneName(ordered[i])]
    ELSE IF s.listView = "rooms"
    THEN LET ordered == getOrderedRooms(s)
         IN  [i \in 1..Len(ordered) |-> roomName(ordered[i])]
    ELSE IF s.listView = "devices"
    THEN LET ordered == getOrderedDevices(s)
         IN  [i \in 1..Len(ordered) |-> deviceName(ordered[i])]
    ELSE IF s.listView = "favorites"
    THEN LET ordered == getOrderedFavorites(s)
         IN  [i \in 1..Len(ordered) |-> ordered[i].displayName]
    ELSE IF s.listView \in DimViews
    THEN [i \in 1..Len(DIM_LEVELS) |-> ToString(DIM_LEVELS[i])]
    ELSE <<>>

-----------------------------------------------------------------------------
(* The confirmation image (src/src/app.ts) and the image queue of the bridge *)

\* The display at rest: no image queued or being sent, no confirmation showing.
\* sending holds the updateImageRawData calls not yet returned, each with the
\* call of showConfirmation that awaits the loop (0: nobody awaits it); calls
\* holds the calls of showConfirmation suspended at an await; enqueued, sent,
\* icon, behind and overtaken are observations
NoDisplay ==
    [bridge |-> TRUE,
     imageQueue |-> <<>>,
     isSendingImage |-> FALSE,
     sending |-> {},
     enqueued |-> <<>>,
     sent |-> <<>>,
     behind |-> FALSE,
     confirmationDismissTimeoutId |-> null,
     confirmationShowing |-> "none",
     dismissTimers |-> <<>>,
     calls |-> {},
     started |-> 0,
     icon |-> 0,
     overtaken |-> FALSE]

ConfirmationResults == {"success", "failure"}

\* Variant of processImageQueue that does not test isSendingImage
processImageQueueUnguarded(d, owner) ==
    IF ~d.bridge \/ d.imageQueue = <<>> THEN d
    ELSE [d EXCEPT !.isSendingImage = TRUE,
                   !.sending = @ \cup {[owner |-> owner, data |-> Head(d.imageQueue)]},
                   !.imageQueue = Tail(@)]

\* EvenHubBridge.processImageQueue up to its first await: it returns at once when
\* a loop is running or there is no bridge, otherwise it takes the flag and sends
\* the first image of the queue
processImageQueue(d, owner) ==
    IF d.isSendingImage \/ ~d.bridge \/ d.imageQueue = <<>> THEN d
    ELSE [d EXCEPT !.isSendingImage = TRUE,
                   !.sending = @ \cup {[owner |-> owner, data |-> Head(d.imageQueue)]},
                   !.imageQueue = Tail(@)]

\* EvenHubBridge.updateBoardImage up to its first await
updateBoardImage(d, data, owner) ==
    processImageQueue([d EXCEPT !.imageQueue = Append(@, data),
                                !.enqueued = Append(@, data),
                                !.behind = @ \/ d.sending # {},
                                !.icon = IF data[1] = "icon" THEN data[2] ELSE @],
                      owner)

\* updateBoardImage has returned without awaiting a loop of its own
returnedAtOnce(before, after, owner) == \A s \in after.sending \ before.sending : s.owner # owner

\* The calls of showConfirmation other than call k
otherCalls(d, k) == {c \in d.calls : c.k # k}

\* app.ts:1103-1115: the end of showConfirmation
showConfirmationEnd(d, k, result) ==
    [d EXCEPT !.confirmationShowing = result,
              !.confirmationDismissTimeoutId = k,
              !.dismissTimers = Append(@, k),
              !.calls = otherCalls(d, k)]

\* app.ts:1096-1102: the image of the result is handed to the bridge; the call goes
\* on at once or waits for the loop it has started
showConfirmationImage(d, k, result) ==
    LET after == updateBoardImage(d, <<"icon", k>>, k)
    IN  IF returnedAtOnce(d, after, k) THEN showConfirmationEnd(after, k, result)
        ELSE [after EXCEPT !.calls = otherCalls(d, k)
                                       \cup {[k |-> k, result |-> result, pc |-> "image"]}]

\* app.ts:1080-1095: the beginning of showConfirmation, call number k
showConfirmation(d, k, result) ==
    LET cleared == IF d.confirmationDismissTimeoutId # null
                   THEN [d EXCEPT !.dismissTimers =
                                      SelectSeq(@, LAMBDA j : j # d.confirmationDismissTimeoutId),
                                  !.confirmationDismissTimeoutId = null]
                   ELSE d
    IN  IF cleared.confirmationShowing = result
        THEN LET after == updateBoardImage(cleared, <<"blank", k>>, k)
                 pc == IF returnedAtOnce(cleared, after, k) THEN "flash" ELSE "blank"
             IN  [after EXCEPT !.calls = @ \cup {[k |-> k, result |-> result, pc |-> pc]}]
        ELSE showConfirmationImage(cleared, k, result)

\* The loop of processImageQueue has ended: the call that awaited it goes on
loopEnded(d, owner) ==
    IF owner = 0 \/ ~\E c \in d.calls : c.k = owner THEN d
    ELSE LET c == CHOOSE c \in d.calls : c.k = owner
         IN  IF c.pc = "blank"
             THEN [d EXCEPT !.calls = otherCalls(d, owner) \cup {[c EXCEPT !.pc = "flash"]}]
             ELSE showConfirmationEnd(d, owner, c.result)

\* part_004:143-155: updateImageRawData has returned or thrown; the loop sends the
\* next image, or gives the flag back and ends
imageSent(d, s) ==
    LET done == [d EXCEPT !.sent = Append(@, s.data), !.sending = @ \ {s}]
    IN  IF done.imageQueue # <<>>
        THEN [done EXCEPT !.sending = @ \cup {[owner |-> s.owner, data |-> Head(done.imageQueue)]},
                          !.imageQueue = Tail(@)]
        ELSE loopEnded([done EXCEPT !.isSendingImage = FALSE], s.owner)

\* app.ts:1104-1115: the dismiss timer j fires
dismiss(d, j) ==
    updateBoardImage([d EXCEPT !.dismissTimers = SelectSeq(@, LAMBDA i : i # j),
                               !.confirmationDismissTimeoutId = null,
                               !.confirmationShowing = "none",
                               !.overtaken = @ \/ d.icon > j],
                     <<"dismiss", j>>, 0)

\* What has been observed of the run so far
InitHist ==
    [lastRaw |-> [pos |-> -1, taps |-> 0, same |-> FALSE, scrolling |-> FALSE, skipped |-> FALSE,
                  label |-> ""],
     commitsSince |-> 0,
     lastCommit |-> [pos |-> -1, count |-> 0],
     tapRun |-> [pos |-> -1, k |-> 0, strict |-> TRUE, clean |-> TRUE, commits |-> 0],
     scrollRun |-> [len |-> 0, pos |-> -1, commits |-> 0],
     staleFired |-> FALSE,
     devicesRoom |-> 0,
     started |-> 0,
     confirmed |-> 0,
     lastConfirmation |-> [command |-> <<"none">>, outcome |-> "none",
                           counts |-> <<0, 0>>, result |-> "none"]]

\* Nothing is fetched or edited
NoHome == [items |-> 0, favorites |-> 0, edits |-> 0, gestures |-> 0]

NotRouted == [slot |-> -1, target |-> Target("none", 0)]
NoWalk == [start |-> -1, acc |-> <<>>, done |-> FALSE]

\* Every screen over every collection length, on each of its pages; the favorites
\* screen also on the page after its last (favorites removed while it is shown)
InitPages ==
    /\ \E view \in ListViews, n \in 0..MaxItems, order \in OrderPreferences,
          loaded \in BOOLEAN, page \in 0..(MaxItems \div SCENES_PER_PAGE + 1) :
          LET s == ScreenState(view, n, order, loaded)
          IN  /\ loaded \/ (n = 0 /\ view \in {"scenes", "rooms", "devices"})
              /\ n <= MaxDetailItems \/ view \in PagedViews
              /\ n >= 1 \/ view \notin {"device-detail", "device-dim"}
              /\ order = "alphabetical" \/ view \in PagedViews \cup {"main"}
              /\ page <= getTotalPages(s) - 1 \/ (view = "favorites" /\ page = getTotalPages(s))
              /\ state = reduce(s, ListPage(page))
    /\ labels = listItemNamesForState(state)
    /\ walk = [start |-> state.listPageIndex, acc |-> <<>>, done |-> FALSE]
    /\ routed = NotRouted
    /\ display = NoDisplay
    /\ useRealGlasses = FALSE
    /\ lastTapAge = 0
    /\ lastTapIndex = -1
    /\ tapCount = 0
    /\ commitTimeoutId = null
    /\ timers = {}
    /\ recentListIndices = <<>>
    /\ inflight = {}
    /\ hist = InitHist
    /\ home = NoHome

gestureVars == <<useRealGlasses, display, lastTapAge, lastTapIndex, tapCount, commitTimeoutId,
                 timers, recentListIndices, inflight, hist, home>>

\* The page is composed and its content labels are collected; unless it is the
\* last page, the store moves to the next page (LIST_PAGE) and the page is rebuilt
WalkOver(totalPages) ==
    /\ ~walk.done
    /\ state.listPageIndex <= totalPages - 1
    /\ LET isLast == state.listPageIndex = totalPages - 1
       IN  /\ walk' = [walk EXCEPT
                          !.acc = walk.acc \o ContentLabels(listItemNamesForState(state)),
                          !.done = isLast]
           /\ state' = IF isLast THEN state
                       ELSE reduce(state, ListPage(state.listPageIndex + 1))
           /\ labels' = listItemNamesForState(state')
    /\ routed' = NotRouted
    /\ UNCHANGED gestureVars

WalkPage == WalkOver(getTotalPages(state))

\* The router resolves a single tap on one of the displayed positions of the page
Route ==
    /\ routed = NotRouted
    /\ \E slot \in 0..(Len(labels) - 1) :
          routed' = [slot |-> slot, target |-> singleTapTarget(state, slot)]
    /\ UNCHANGED <<state, labels, walk>>
    /\ UNCHANGED gestureVars

NextPages == WalkPage \/ Route

SpecPages == InitPages /\ [][NextPages]_vars

-----------------------------------------------------------------------------
(* The gesture session: raw events, the commit timer and the passing of time *)

\* The run of single taps at one position, each within TAP_WINDOW_MS of the one
\* before, that the raw event (listIndex, gestureTaps) extends or begins
tapRunAfter(listIndex, gestureTaps) ==
    LET within == /\ hist.lastRaw.pos = listIndex
                  /\ lastTapAge <= TAP_WINDOW_MS
        run == hist.tapRun
    IN  IF gestureTaps = 1 /\ run.k >= 1 /\ within
        THEN [run EXCEPT !.k = Min(run.k + 1, 5),
                         !.strict = run.strict /\ lastTapAge < TAP_COMMIT_MS]
        ELSE IF gestureTaps = 1
        THEN [pos |-> listIndex, k |-> 1, strict |-> TRUE, clean |-> ~within, commits |-> 0]
        ELSE [pos |-> listIndex, k |-> 0, strict |-> TRUE, clean |-> TRUE, commits |-> 0]

\* The run of single taps at strictly increasing positions, each within
\* SCROLL_WINDOW_MS of the one before, that the raw event extends or begins
scrollRunAfter(listIndex, gestureTaps) ==
    LET run == hist.scrollRun
    IN  IF gestureTaps = 1 /\ run.len >= 1 /\ listIndex > run.pos
           /\ lastTapAge <= SCROLL_WINDOW_MS
        THEN [run EXCEPT !.len = Min(run.len + 1, 2), !.pos = listIndex]
        ELSE IF gestureTaps = 1 THEN [len |-> 1, pos |-> listIndex, commits |-> 0]
        ELSE [len |-> 0, pos |-> -1, commits |-> 0]

\* app.ts:1515-1550: the handler of hub.subscribeEvents
HubEvent(event) ==
    LET action == mapEvenHubEvent(event, state)
        listIndex == action.selectedIndex
        gestureTaps == action.gestureTaps
        recent == shiftOld(Append(recentListIndices, [index |-> listIndex, age |-> 0]))
        scrolling == likelyScrolling(recent)
        same == isSameItemAgain(listIndex)
        isNewItemSingleTap == ~same /\ gestureTaps = 1
        skip == skipCommitForScroll(isNewItemSingleTap, scrolling)
        cleared == IF commitTimeoutId # null THEN clearTimeout(timers, commitTimeoutId)
                   ELSE timers
        earlier == {[t EXCEPT !.stale = TRUE] : t \in cleared}
        id == freshTimerId(earlier)
    IN  IF action.type # "TAP"
        THEN UNCHANGED appVars
        ELSE /\ Len(recent) <= MaxRecent
             /\ state' = reduce(state, [type |-> "TAP", selectedIndex |-> listIndex])
             /\ recentListIndices' = recent
             /\ tapCount' = nextTapCount(same, gestureTaps)
             /\ lastTapIndex' = IF same THEN lastTapIndex ELSE listIndex
             /\ lastTapAge' = 0
             /\ IF ~skip
                THEN /\ timers' = earlier \cup {[id |-> id, remaining |-> TAP_COMMIT_MS,
                                                 stale |-> FALSE]}
                     /\ commitTimeoutId' = id
                ELSE /\ timers' = earlier
                     /\ commitTimeoutId' = null
             /\ hist' = [hist EXCEPT
                            !.lastRaw = [pos |-> listIndex, taps |-> gestureTaps,
                                         same |-> same, scrolling |-> scrolling,
                                         skipped |-> skip,
                                         label |-> IF listIndex < Len(labels)
                                                   THEN labels[listIndex + 1] ELSE ""],
                            !.commitsSince = 0,
                            !.lastCommit = InitHist.lastCommit,
                            !.tapRun = tapRunAfter(listIndex, gestureTaps),
                            !.scrollRun = scrollRunAfter(listIndex, gestureTaps)]
             /\ UNCHANGED <<labels, useRealGlasses, display, inflight, walk, routed>>

RawEvent == \E event \in HubEvents : HubEvent(event) /\ UNCHANGED home

\* refreshPage (app.ts:799-804): the labels of the rebuilt page
refreshPage(s) == listItemNamesForState(s)

\* The room whose fetch filled state.devices once `acts` are dispatched: a favorite
\* device brings the devices of every room (-1)
devicesRoomAfter(acts) ==
    IF \E i \in 1..Len(acts) : acts[i].type = "NAV_FAVORITE_DEVICE" THEN -1
    ELSE hist.devicesRoom

\* commitTap (app.ts:1234-1511) run by the due timer t, with the effects it has
Commit(t, effects) ==
    /\ t.remaining = 0
    /\ state' = dispatchAll(state, effects.acts)
    /\ labels' = IF effects.refresh THEN refreshPage(state') ELSE labels
    /\ inflight' = inflight \cup effects.load
    /\ timers' = timers \ {t}
    /\ commitTimeoutId' = null
    /\ lastTapIndex' = neutralSession.lastTapIndex
    /\ tapCount' = neutralSession.tapCount
    /\ hist' = [hist EXCEPT
                   !.commitsSince = Min(hist.commitsSince + 1, 2),
                   !.lastCommit = [pos |-> lastTapIndex, count |-> tapCount],
                   !.tapRun.commits = Min(hist.tapRun.commits + 1, 2),
                   !.scrollRun.commits = 1,
                   !.staleFired = hist.staleFired \/ t.stale,
                   !.devicesRoom = devicesRoomAfter(effects.acts)]
    /\ UNCHANGED <<useRealGlasses, display, lastTapAge, recentListIndices, walk, routed, home>>

\* A commit timer is due: the runtime removes it and calls commitTap
CommitTap == \E t \in timers : Commit(t, commitEffects(state, lastTapIndex, tapCount))

\* The time that passes in one step: TimeStep, or less when a timer is due sooner
Elapse(pending) ==
    IF \E t \in pending : t.remaining < TimeStep
    THEN CHOOSE d \in 1..TimeStep : /\ \E t \in pending : t.remaining = d
                                    /\ \A t \in pending : t.remaining >= d
    ELSE TimeStep

\* The clock moves on by d milliseconds: ages grow, pending timers come closer
Advance(d) ==
    /\ lastTapAge' = Min(lastTapAge + d, AgeCap)
    /\ timers' = {[t EXCEPT !.remaining = t.remaining - d] : t \in timers}
    /\ recentListIndices' =
          [i \in 1..Len(recentListIndices) |->
              [recentListIndices[i] EXCEPT !.age = Min(@ + d, RecentAgeCap)]]
    /\ UNCHANGED <<state, labels, useRealGlasses, display, lastTapIndex, tapCount, commitTimeoutId,
                   inflight, hist, walk, routed, home>>

\* Time passes; a timer that is due fires before time moves on
Tick ==
    /\ \A t \in timers : t.remaining > 0
    /\ lastTapAge < AgeCap \/ timers # {}
    /\ Advance(Elapse(timers))

\* The gesture session after initApp, on the main menu, on either device
InitGesture ==
    /\ useRealGlasses \in BOOLEAN
    /\ state = dispatchAll(buildInitialState,
                            <<[type |-> "PREFERENCES_LOADED", preferences |-> DEFAULT_PREFERENCES],
                              [type |-> "SCENES_LOADED", scenes |-> Fetched(GestureItems)]>>)
    /\ labels = listItemNamesForState(state)
    /\ lastTapAge = AgeCap
    /\ lastTapIndex = -1
    /\ tapCount = 0
    /\ commitTimeoutId = null
    /\ timers = {}
    /\ recentListIndices = <<>>
    /\ inflight = {}
    /\ hist = InitHist
    /\ home = NoHome
    /\ walk = NoWalk
    /\ routed = NotRouted
    /\ display = NoDisplay

NextGesture == RawEvent \/ CommitTap \/ Tick

SpecGesture == InitGesture /\ [][NextGesture]_vars

-----------------------------------------------------------------------------
(* The app after initApp: requests in flight, the config UI, taps and commits *)

\* The home has as many scenes as rooms and as devices in each room; the stored
\* preferences hold a number of favorites: each is none, or MaxNavItems
NavSizes == {0, MaxNavItems}

\* Raw events at the first, the second and the last displayed position
NavPositions == {0, 1, Max(Len(labels) - 1, 0)}

\* One gesture at a time: while a commit is pending the user taps the same
\* position again; other positions are tapped once the commit has run, and a
\* commit that is due runs before the next event
NavEvent ==
    \E event \in {e \in HubEvents : e.index \in NavPositions} :
        LET action == mapEvenHubEvent(event, state)
            begins == action.type = "TAP" /\ timers = {}
        IN  /\ \A t \in timers : t.remaining > 0
            /\ timers = {} \/ (action.type = "TAP" /\ action.selectedIndex = lastTapIndex)
            /\ begins => home.gestures < MaxGestures
            /\ HubEvent(event)
            /\ home' = IF begins THEN [home EXCEPT !.gestures = home.gestures + 1] ELSE home

\* The user stays away until the pending commit timer is due, or, with none
\* pending, until every window has closed
Wait ==
    /\ \A t \in timers : t.remaining > 0
    /\ lastTapAge < AgeCap \/ timers # {}
    /\ Advance(IF timers = {} THEN AgeCap
               ELSE CHOOSE d \in 1..AgeCap : /\ \E t \in timers : t.remaining = d
                                             /\ \A t \in timers : t.remaining >= d)

\* A request in flight is answered: the store is updated by `acts` and the page
\* is rebuilt when the code calls refreshPage after the dispatch
AnswerFrom(request, acts, refresh, room) ==
    /\ request \in inflight
    /\ inflight' = inflight \ {request}
    /\ state' = dispatchAll(state, acts)
    /\ labels' = IF refresh THEN refreshPage(state') ELSE labels
    /\ hist' = [hist EXCEPT !.devicesRoom = room]
    /\ UNCHANGED <<useRealGlasses, display, lastTapAge, lastTapIndex, tapCount, commitTimeoutId,
                   timers, recentListIndices, walk, routed, home>>

Answer(request, acts, refresh) == AnswerFrom(request, acts, refresh, hist.devicesRoom)

\* app.ts:692-700: the stored preferences arrive, or reading them fails
PreferencesResponse ==
    \/ Answer(<<"prefs", 0>>,
              <<[type |-> "PREFERENCES_LOADED",
                 preferences |-> [DEFAULT_PREFERENCES EXCEPT
                                     !.favoritesIds = Favorites(home.favorites)]]>>,
              TRUE)
    \/ Answer(<<"prefs", 0>>, <<>>, FALSE)

\* Variant whose failure path also returns to the main menu
ScenesResponseErrorGoesHome ==
    \/ Answer(<<"scenes", 0>>,
              <<[type |-> "SCENES_LOADED", scenes |-> Fetched(home.items)]>>, FALSE)
    \/ Answer(<<"scenes", 0>>, <<[type |-> "SCENES_ERROR"], NavView("main")>>, FALSE)

\* app.ts:713-721: the scenes arrive, or the request fails; the page is not rebuilt
ScenesResponse ==
    \/ Answer(<<"scenes", 0>>,
              <<[type |-> "SCENES_LOADED", scenes |-> Fetched(home.items)]>>, FALSE)
    \/ Answer(<<"scenes", 0>>, <<[type |-> "SCENES_ERROR"]>>, FALSE)

\* app.ts:761-786 loadRooms after its awaits
RoomsResponse ==
    \/ Answer(<<"rooms", 0>>,
              <<[type |-> "ROOMS_LOADED", rooms |-> Fetched(home.items)],
                [type |-> "ALL_DEVICES_LOADED", devices |-> Fetched(home.items)]>>,
              TRUE)
    \/ Answer(<<"rooms", 0>>, <<[type |-> "ROOMS_ERROR"]>>, TRUE)

\* app.ts:1220-1232 loadDevicesForRoom after its awaits
DevicesResponse ==
    \E request \in {r \in inflight : r[1] = "devices"} :
        \/ AnswerFrom(request,
                      <<[type |-> "DEVICES_LOADED", devices |-> Fetched(home.items)]>>, TRUE,
                      request[2])
        \/ Answer(request, <<[type |-> "DEVICES_ERROR"]>>, TRUE)

\* app.ts:565-588 runExecuteScene after the cloud has answered
ExecuteResponse ==
    \E request \in {r \in inflight : r[1] = "execute"}, success \in BOOLEAN :
        Answer(request, <<[type |-> "EXECUTE_END", success |-> success]>>, FALSE)

\* app.ts:115-117 saveAndRefresh: the preferences are stored, then the page is rebuilt
SaveDone == Answer(<<"save", 0>>, <<>>, TRUE)

\* The config UI replaces the favorites (SET_FAVORITES) and calls saveAndRefresh
SetFavorites(next) ==
    /\ home.edits < MaxEdits
    /\ state' = reduce(state, [type |-> "SET_FAVORITES", favoritesIds |-> next])
    /\ inflight' = inflight \cup {<<"save", 0>>}
    /\ home' = [home EXCEPT !.edits = home.edits + 1]
    /\ UNCHANGED <<labels, useRealGlasses, display, lastTapAge, lastTapIndex, tapCount,
                   commitTimeoutId, timers, recentListIndices, hist, walk, routed>>

\* app.ts:238-242: the Remove button of the i-th favorite (the first or the last)
RemoveFavorite ==
    LET favoritesIds == state.preferences.favoritesIds
    IN  \E i \in {1, Len(favoritesIds)} :
           /\ i \in 1..Len(favoritesIds)
           /\ SetFavorites([j \in 1..(Len(favoritesIds) - 1) |->
                               IF j < i THEN favoritesIds[j] ELSE favoritesIds[j + 1]])

\* app.ts:392-402: the picker adds a scene that is not yet a favorite
AddFavorite ==
    LET favoritesIds == state.preferences.favoritesIds
    IN  \E sceneId \in {state.scenes[i] : i \in 1..Min(Len(state.scenes), 1)} :
           SetFavorites(IF \E j \in 1..Len(favoritesIds) :
                               favoritesIds[j] = [type |-> "scene", id |-> sceneId]
                        THEN favoritesIds
                        ELSE Append(favoritesIds, [type |-> "scene", id |-> sceneId]))

\* A single tap on position listIndex is committed and the request it starts,
\* if any, is answered
VisitWith(s, items, listIndex, effects) ==
    LET tapped == reduce(s, [type |-> "TAP", selectedIndex |-> listIndex])
        rooms == IF \E r \in effects.load : r[1] = "rooms"
                 THEN <<[type |-> "ROOMS_LOADED", rooms |-> Fetched(items)],
                        [type |-> "ALL_DEVICES_LOADED", devices |-> Fetched(items)]>>
                 ELSE <<>>
        devices == IF \E r \in effects.load : r[1] = "devices"
                   THEN <<[type |-> "DEVICES_LOADED", devices |-> Fetched(items)]>>
                   ELSE <<>>
    IN  dispatchAll(tapped, effects.acts \o rooms \o devices)

Visit(s, items, listIndex) == VisitWith(s, items, listIndex, commitEffects(s, listIndex, 1))

RECURSIVE VisitAll(_, _, _)
VisitAll(s, items, path) ==
    IF path = <<>> THEN s ELSE VisitAll(Visit(s, items, Head(path)), items, Tail(path))

\* The main menu once the preferences, the scenes and the rooms have arrived
Loaded(items, favorites) ==
    dispatchAll(buildInitialState,
                <<[type |-> "PREFERENCES_LOADED",
                   preferences |-> [DEFAULT_PREFERENCES EXCEPT
                                       !.favoritesIds = Favorites(favorites)]],
                  [type |-> "SCENES_LOADED", scenes |-> Fetched(items)],
                  [type |-> "ROOMS_LOADED", rooms |-> Fetched(items)],
                  [type |-> "ALL_DEVICES_LOADED", devices |-> Fetched(items)]>>)

\* The positions tapped, from the loaded main menu, to open each screen: the
\* first room, then All or the second device of the room, then Dim
PathTo(s, view) ==
    LET views == getMainMenuOrderedViews(s)
        menu(v) == IF \E i \in 1..Len(views) : views[i] = v
                   THEN <<(CHOOSE i \in 1..Len(views) : views[i] = v) - 1>>
                   ELSE <<0>>
        room == menu("rooms") \o <<1>>
    IN  CASE view = "main" -> <<>>
          [] view \in {"scenes", "rooms", "favorites"} -> menu(view)
          [] view = "devices" -> room
          [] view = "room-all-detail" -> room \o <<1>>
          [] view = "room-all-dim" -> room \o <<1, 3>>
          [] view = "device-detail" -> room \o <<3>>
          [] view = "device-dim" -> room \o <<3, 1>>

\* The app right after initApp (the default store, the startup page, and the
\* preferences, scenes and rooms requested), or at rest on one of its screens
Init ==
    /\ useRealGlasses \in BOOLEAN
    /\ home \in [items : NavSizes, favorites : NavSizes, edits : {0}, gestures : {0}]
    /\ \/ /\ state = buildInitialState
          /\ inflight = {<<"prefs", 0>>, <<"scenes", 0>>, <<"rooms", 0>>}
       \/ /\ \E view \in ListViews :
                LET s == Loaded(home.items, home.favorites)
                    at == VisitAll(s, home.items, PathTo(s, view))
                IN  at.listView = view /\ state = at
          /\ inflight = {}
    /\ labels = listItemNamesForState(state)
    /\ lastTapAge = AgeCap
    /\ lastTapIndex = -1
    /\ tapCount = 0
    /\ commitTimeoutId = null
    /\ timers = {}
    /\ recentListIndices = <<>>
    /\ hist = InitHist
    /\ walk = NoWalk
    /\ routed = NotRouted
    /\ display = NoDisplay

Next ==
    \/ NavEvent
    \/ CommitTap
    \/ Wait
    \/ PreferencesResponse
    \/ ScenesResponse
    \/ RoomsResponse
    \/ DevicesResponse
    \/ ExecuteResponse
    \/ SaveDone
    \/ RemoveFavorite
    \/ AddFavorite

Spec == Init /\ [][Next]_vars

-----------------------------------------------------------------------------
(* The list orders: stored preferences over fetched collections, lists opened *)

\* The sequences over S of length n or less
SeqsUpTo(S, n) == UNION {[1..k -> S] : k \in 0..n}

\* The entities the cloud may return: two whose names differ only in case, and a third
OrderIds == {1, twinOf(1), 2}

\* The ids a stored custom order or favorites list may hold: those and one of no entity
StoredIds == OrderIds \cup {3}

\* The collections the cloud may return: entities with unique ids, in any order
Collections ==
    {fetched \in SeqsUpTo(OrderIds, Cardinality(OrderIds)) :
        \A i, j \in 1..Len(fetched) : i # j => fetched[i] # fetched[j]}

\* The preferences migrate (preferences-storage.ts:10-52) returns for a stored
\* object with one order preference and one id list for the scenes, rooms and
\* devices, and the same ids as favorite scenes
StoredPreferences(order, customIds) ==
    [DEFAULT_PREFERENCES EXCEPT
        !.listOrder = [scenes |-> order, rooms |-> order, devices |-> order,
                       favorites |-> order, main |-> DEFAULT_PREFERENCES.listOrder.main],
        !.listOrderCustomIds = [scenes |-> customIds, rooms |-> customIds,
                                devices |-> customIds,
                                favorites |-> DEFAULT_PREFERENCES.listOrderCustomIds.favorites,
                                main |-> DEFAULT_PREFERENCES.listOrderCustomIds.main],
        !.favoritesIds = [i \in 1..Len(customIds) |-> [type |-> "scene", id |-> customIds[i]]]]

\* preferences-storage.ts:37-43: the stored main-menu order keeps its valid items
\* and falls back to the default order when none is left
migrateMain(stored) ==
    LET valid == Filter(stored, LAMBDA x : x \in Range(MAIN_MENU_ITEMS))
    IN  IF valid = <<>> THEN DEFAULT_PREFERENCES.listOrderCustomIds.main ELSE valid

\* The preferences migrate returns for a stored object with an order preference
\* and an id list for the main menu, and favorites or none
StoredMainPreferences(order, storedMain, favoritesIds) ==
    [DEFAULT_PREFERENCES EXCEPT
        !.listOrder.main = order,
        !.listOrderCustomIds.main = migrateMain(storedMain),
        !.favoritesIds = favoritesIds]

\* The main menu after the stored preferences, the scenes and the rooms have
\* arrived: the stored preferences order the lists, or the main menu
InitOrder ==
    /\ \/ \E fetched \in Collections, customIds \in SeqsUpTo(StoredIds, MaxCustomIds),
             order \in OrderPreferences :
             state = dispatchAll(buildInitialState,
                         <<[type |-> "PREFERENCES_LOADED",
                            preferences |-> StoredPreferences(order, customIds)],
                           [type |-> "SCENES_LOADED", scenes |-> fetched],
                           [type |-> "ROOMS_LOADED", rooms |-> fetched]>>)
       \/ \E storedMain \in SeqsUpTo(Range(MAIN_MENU_ITEMS) \cup {"other"}, MaxCustomIds),
             order \in OrderPreferences, favorites \in {0, 1} :
             state = dispatchAll(buildInitialState,
                         <<[type |-> "PREFERENCES_LOADED",
                            preferences |-> StoredMainPreferences(order, storedMain,
                                                                  Favorites(favorites))],
                           [type |-> "SCENES_LOADED", scenes |-> Fetched(1)],
                           [type |-> "ROOMS_LOADED", rooms |-> Fetched(1)]>>)
    /\ labels = listItemNamesForState(state)
    /\ useRealGlasses = FALSE
    /\ lastTapAge = AgeCap
    /\ lastTapIndex = -1
    /\ tapCount = 0
    /\ commitTimeoutId = null
    /\ timers = {}
    /\ recentListIndices = <<>>
    /\ inflight = {}
    /\ hist = InitHist
    /\ walk = NoWalk
    /\ routed = NotRouted
    /\ display = NoDisplay
    /\ home = NoHome

\* commitTap for a single tap on the main menu (app.ts:1244-1257): the list is
\* opened and the page rebuilt
OpenWith(listIndex, effects) ==
    /\ state' = dispatchAll(state, effects.acts)
    /\ labels' = IF effects.refresh THEN refreshPage(state') ELSE labels
    /\ inflight' = inflight \cup effects.load
    /\ hist' = [hist EXCEPT !.commitsSince = 1,
                            !.lastCommit = [pos |-> listIndex, count |-> 1]]
    /\ UNCHANGED <<useRealGlasses, display, lastTapAge, lastTapIndex, tapCount, commitTimeoutId,
                   timers, recentListIndices, walk, routed, home>>

OpenList ==
    /\ state.listView = "main"
    /\ \E listIndex \in 0..(Len(labels) - 1) :
          OpenWith(listIndex, commitEffects(state, listIndex, 1))

NextOrder == OpenList

SpecOrder == InitOrder /\ [][NextOrder]_vars

-----------------------------------------------------------------------------
(* The router: every screen on every page, taps committed, requests answered *)

\* Collection lengths around the page sizes: none, one, a short list, a full
\* first page, one more than that, and the largest
TapSizes == {0, 1, MaxDetailItems, SCENES_PER_PAGE, SCENES_PER_PAGE + 1, MaxItems}

\* The requests not yet answered in store state s: the scenes fetch of initApp
\* (app.ts:713-721), loadRooms (761-786) and loadDevicesForRoom (1220-1232)
pendingRequests(s) ==
    (IF s.status = "loading" THEN {<<"scenes", 0>>} ELSE {})
    \cup (IF s.roomsStatus = "loading" THEN {<<"rooms", 0>>} ELSE {})
    \cup (IF s.devicesStatus = "loading" THEN {<<"devices", s.selectedRoomId>>} ELSE {})

\* Every screen over the collection lengths of TapSizes, on each of its pages,
\* with the requests its load statuses say are still in flight
InitTaps ==
    /\ \E view \in ListViews, n \in TapSizes, order \in OrderPreferences,
          loaded \in BOOLEAN, page \in 0..(MaxItems \div SCENES_PER_PAGE + 1) :
          LET s == ScreenState(view, n, order, loaded)
          IN  /\ loaded \/ (n = 0 /\ view \in {"scenes", "rooms", "devices"})
              /\ n <= MaxDetailItems \/ view \in PagedViews
              /\ n >= 1 \/ view \notin {"device-detail", "device-dim"}
              /\ order = "alphabetical" \/ view \in PagedViews \cup {"main"}
              /\ page <= getTotalPages(s) - 1
              /\ state = reduce(s, ListPage(page))
              /\ home = [items |-> n, favorites |-> 0, edits |-> 0, gestures |-> 0]
    /\ labels = listItemNamesForState(state)
    /\ inflight = pendingRequests(state)
    /\ walk = [start |-> state.listPageIndex, acc |-> <<>>, done |-> FALSE]
    /\ routed = NotRouted
    /\ display = NoDisplay
    /\ useRealGlasses = FALSE
    /\ lastTapAge = AgeCap
    /\ lastTapIndex = -1
    /\ tapCount = 0
    /\ commitTimeoutId = null
    /\ timers = {}
    /\ recentListIndices = <<>>
    /\ hist = [InitHist EXCEPT !.devicesRoom = IF state.devicesStatus = "ready"
                                                 THEN state.selectedRoomId ELSE 0]

\* app.ts:1176 and 1198: the devices of the room a room-wide command is sent to,
\* read from the store when the command starts
batchTotal(s, cmd) ==
    IF cmd[1] = "allSwitch"
    THEN Cardinality({i \in 1..Len(s.devices) : supportsSwitch(s.devices[i])})
    ELSE IF cmd[1] = "allSetLevel"
    THEN Cardinality({i \in 1..Len(s.devices) : supportsDimmer(s.devices[i])})
    ELSE 1

\* The device commands a commit starts (app.ts:1134-1218 runDeviceSwitch,
\* runDeviceSetLevel, runAllDevicesInRoomSwitch, runAllDimmableDevicesSetLevel)
\* are requests to the cloud; a scene execution is in effects.load already
commandRequests(s, cmd, k) ==
    IF cmd[1] \in {"none", "executeScene"} THEN {}
    ELSE {<<"command", cmd, k, batchTotal(s, cmd)>>}

\* The handler dispatches TAP for the raw events of one gesture at listIndex
\* (app.ts:1515-1550) and the timer commits it with `count` taps (1234-1511)
CommitAfterTap(listIndex, count, effects) ==
    /\ state' = dispatchAll(reduce(state, [type |-> "TAP", selectedIndex |-> listIndex]),
                            effects.acts)
    /\ labels' = IF effects.refresh THEN refreshPage(state') ELSE labels
    /\ inflight' = inflight \cup effects.load
                             \cup commandRequests(state, effects.cmd, hist.started + 1)
    /\ hist' = [hist EXCEPT !.commitsSince = 1,
                            !.lastCommit = [pos |-> listIndex, count |-> count],
                            !.started = IF effects.cmd[1] = "none" THEN hist.started
                                        ELSE hist.started + 1,
                            !.devicesRoom = devicesRoomAfter(effects.acts)]
    /\ walk' = [walk EXCEPT !.start = state.listPageIndex]
    /\ home' = [home EXCEPT !.gestures = home.gestures + 1]
    /\ UNCHANGED <<useRealGlasses, display, lastTapAge, lastTapIndex, tapCount, commitTimeoutId,
                   timers, recentListIndices, routed>>

\* The positions tapped: the first four (the controls of the detail screens, Back
\* or Previous, All, the first entities) and the last one displayed
TapPositions ==
    LET last == Max(Len(labels) - 1, 0)
    IN  {i \in {0, 1, 2, 3} : i <= last} \cup {last}

\* A gesture of one to four taps (app.ts:1535-1537: tapCount is at most 4) on one
\* of these positions is committed
TapCommitted ==
    /\ home.gestures < MaxTaps
    /\ \E listIndex \in TapPositions, count \in 1..4 :
          CommitAfterTap(listIndex, count, commitEffects(state, listIndex, count))

\* A command completes: the store is updated by `acts`, the requests of `load`
\* are sent, and showConfirmation (app.ts:1080-1116) is called once for each
\* result of `shown`; the page is not rebuilt
Complete(request, acts, load, command, outcome, counts, shown) ==
    /\ request \in inflight
    /\ inflight' = (inflight \ {request}) \cup load
    /\ state' = dispatchAll(state, acts)
    /\ hist' = [hist EXCEPT
                   !.confirmed = hist.confirmed + Len(shown),
                   !.lastConfirmation =
                       IF shown = <<>> THEN hist.lastConfirmation
                       ELSE [command |-> command, outcome |-> outcome, counts |-> counts,
                             result |-> shown[Len(shown)]]]
    /\ UNCHANGED <<labels, useRealGlasses, display, lastTapAge, lastTapIndex, tapCount,
                   commitTimeoutId, timers, recentListIndices, walk, routed, home>>

\* What the cloud answers to a scene execution: the call throws, or it returns a
\* status and s accepted or completed results out of t (t = 0: no results)
SceneStatuses == {"success", "partial", "completed_with_errors", "failed"}
ResultCounts == {c \in (0..MaxResults) \X (0..MaxResults) : c[1] <= c[2]}

\* Variant whose catch block shows the failure without dispatching EXECUTE_END
ExecuteCompletesThrowKeepsExecuting ==
    \E request \in {r \in inflight : r[1] = "execute"} :
        \/ Complete(request, <<>>, {},
                    <<"executeScene", request[2]>>, "thrown", <<0, 0>>, <<"failure">>)
        \/ \E status \in SceneStatuses, counts \in ResultCounts :
              Complete(request,
                       <<[type |-> "EXECUTE_END", success |-> status = "success"]>>, {},
                       <<"executeScene", request[2]>>, status, counts,
                       sceneConfirmations(status, counts))

\* app.ts:565-588 runExecuteScene after the cloud has answered or the call has thrown
ExecuteCompletes ==
    \E request \in {r \in inflight : r[1] = "execute"} :
        \/ Complete(request, <<[type |-> "EXECUTE_END", success |-> FALSE]>>, {},
                    <<"executeScene", request[2]>>, "thrown", <<0, 0>>, <<"failure">>)
        \/ \E status \in SceneStatuses, counts \in ResultCounts :
              Complete(request,
                       <<[type |-> "EXECUTE_END", success |-> status = "success"]>>, {},
                       <<"executeScene", request[2]>>, status, counts,
                       sceneConfirmations(status, counts))

\* app.ts:1134-1173 runDeviceSwitch and runDeviceSetLevel after their awaits: the
\* command was accepted, it failed (a FAILED result or the device offline), or
\* the call has thrown
DeviceCommandCompletes ==
    \E request \in {r \in inflight : r[1] = "command"},
       outcome \in {"accepted", "failed", "thrown"} :
        LET cmd == request[2]
            ok == outcome = "accepted"
        IN  /\ cmd[1] \in {"switch", "setLevel"}
            /\ Complete(request,
                        IF ok /\ cmd[1] = "setLevel" THEN <<[type |-> "STATS_DEVICE"]>>
                        ELSE <<>>,
                        IF ok /\ cmd[1] = "switch" THEN {<<"stats", cmd[2]>>} ELSE {},
                        cmd, outcome, <<0, 0>>, deviceConfirmations(outcome))

\* The successful sub-commands tried for a batch of n: none, one, all but one, all
BatchCounts(n) == {s \in {0, 1, n - 1, n} : s >= 0 /\ s <= n}

\* app.ts:1175-1218 runAllDevicesInRoomSwitch and runAllDimmableDevicesSetLevel
\* once every device of the batch has answered or thrown
BatchCompletes ==
    \E request \in {r \in inflight : r[1] = "command"} :
        LET cmd == request[2]
            total == request[4]
        IN  /\ cmd[1] \in {"allSwitch", "allSetLevel"}
            /\ \E successCount \in BatchCounts(total) :
                  Complete(request, <<>>, {}, cmd, "batch", <<successCount, total>>,
                           batchConfirmations(successCount, total))

\* app.ts:1045-1072 loadDeviceStats after its awaits: the stats arrive, or the
\* fetch fails and the stats are cleared; only the stats panel is updated
StatsResponse ==
    \E request \in {r \in inflight : r[1] = "stats"}, ok \in BOOLEAN :
        Answer(request, <<[type |-> "STATS_DEVICE", ok |-> ok]>>, FALSE)

NextTaps ==
    \/ TapCommitted
    \/ ScenesResponse
    \/ RoomsResponse
    \/ DevicesResponse
    \/ ExecuteCompletes
    \/ DeviceCommandCompletes
    \/ BatchCompletes
    \/ StatsResponse

SpecTaps == InitTaps /\ [][NextTaps]_vars

-----------------------------------------------------------------------------
(* The display: confirmations shown by completing commands, images sent *)

\* The app on the main menu, with or without a bridge (part_004:27-39)
InitDisplay ==
    /\ display \in {[NoDisplay EXCEPT !.bridge = bridge] : bridge \in BOOLEAN}
    /\ useRealGlasses = FALSE
    /\ state = dispatchAll(buildInitialState,
                            <<[type |-> "PREFERENCES_LOADED", preferences |-> DEFAULT_PREFERENCES],
                              [type |-> "SCENES_LOADED", scenes |-> Fetched(GestureItems)]>>)
    /\ labels = listItemNamesForState(state)
    /\ lastTapAge = AgeCap
    /\ lastTapIndex = -1
    /\ tapCount = 0
    /\ commitTimeoutId = null
    /\ timers = {}
    /\ recentListIndices = <<>>
    /\ inflight = {}
    /\ hist = InitHist
    /\ home = NoHome
    /\ walk = NoWalk
    /\ routed = NotRouted

\* Every variable but the display
restVars == <<state, labels, useRealGlasses, lastTapAge, lastTapIndex, tapCount,
              commitTimeoutId, timers, recentListIndices, inflight, hist, walk, routed, home>>

\* A command completes and calls showConfirmation (app.ts:1080)
ShowConfirmation ==
    /\ display.started < MaxShows
    /\ \E result \in ConfirmationResults :
          display' = showConfirmation([display EXCEPT !.started = @ + 1],
                                      display.started + 1, result)
    /\ UNCHANGED restVars

\* The flash timer of a call (CONFIRM_FLASH_MS, app.ts:1094) fires
FlashDone ==
    /\ \E c \in {c \in display.calls : c.pc = "flash"} :
          display' = showConfirmationImage(display, c.k, c.result)
    /\ UNCHANGED restVars

\* The bridge's updateImageRawData returns or throws (part_004:146-152)
ImageSent ==
    /\ \E s \in display.sending : display' = imageSent(display, s)
    /\ UNCHANGED restVars

\* The dismiss timer that was started first fires (all run CONFIRM_DISMISS_MS)
DismissFires ==
    /\ display.dismissTimers # <<>>
    /\ display' = dismiss(display, Head(display.dismissTimers))
    /\ UNCHANGED restVars

NextDisplay == ShowConfirmation \/ FlashDone \/ ImageSent \/ DismissFires

SpecDisplay == InitDisplay /\ [][NextDisplay]_vars

\* The screens scenes are executed from, the scenes and the favorites in
\* alphabetical order, with what two gestures from there can start; the scene call
\* and the display updates of runExecuteScene return or fail
InitScenes ==
    /\ InitTaps
    /\ state.listView \in {"scenes", "favorites"}
    /\ state.preferences.listOrder.scenes = "alphabetical"

NextScenes ==
    \/ TapCommitted
    \/ ScenesResponse
    \/ RoomsResponse
    \/ ExecuteCompletes
    \/ DeviceCommandCompletes
    \/ StatsResponse

SpecScenes == InitScenes /\ [][NextScenes]_vars /\ WF_vars(ExecuteCompletes)

-----------------------------------------------------------------------------
(* Properties of the list orders *)

\* The position of the first occurrence of x in seq
FirstIndex(seq, x) == CHOOSE i \in 1..Len(seq) : seq[i] = x /\ \A j \in 1..(i - 1) : seq[j] # x

\* A list ordered by applyOrder is shown
OrderedListShown == state.listView \in {"scenes", "rooms"}

\* The collection of the list shown, its order preference, its stored custom ids
\* and the order it is shown in
ShownItems == IF state.listView = "scenes" THEN state.scenes ELSE state.rooms
ShownPreference == state.preferences.listOrder[state.listView]
ShownCustomIds == state.preferences.listOrderCustomIds[state.listView]
ShownOrder ==
    IF state.listView = "scenes" THEN getOrderedScenes(state) ELSE getOrderedRooms(state)

\* C14: under the custom preference the ordered list holds exactly the ids of the
\* collection, each once: the stored ids found in the collection, in the order of
\* their first occurrence in the stored list, then the other entities by name;
\* whatever unknown, missing or repeated ids the stored list holds
CustomOrderIsPermutation ==
    (OrderedListShown /\ ShownPreference = "custom") =>
        LET found == Range(ShownCustomIds) \cap Range(ShownItems)
            k == Cardinality(found)
            r == ShownOrder
        IN  /\ Len(r) = Len(ShownItems)
            /\ Range(r) = Range(ShownItems)
            /\ \A i, j \in 1..Len(r) : i # j => r[i] # r[j]
            /\ \A i \in 1..k : r[i] \in found
            /\ \A i, j \in 1..k :
                  i < j => FirstIndex(ShownCustomIds, r[i]) < FirstIndex(ShownCustomIds, r[j])
            /\ \A i, j \in (k + 1)..Len(r) : i < j => ~NameLess(r[j], r[i])

\* a list of three entities is shown in a stored custom order that repeats an id,
\* holds the id of no entity and misses an entity
CustomOrderWithRepeatsShown ==
    /\ OrderedListShown
    /\ ShownPreference = "custom"
    /\ Len(ShownItems) = 3
    /\ ShownCustomIds = <<2, 3, 2>>
    /\ labels = <<LABEL_BACK, "S02", "S01", "s01">>

\* The ids of the favorites as stored and as shown, and the name each is sorted by
StoredFavoriteIds ==
    [i \in 1..Len(state.preferences.favoritesIds) |-> state.preferences.favoritesIds[i].id]
ShownFavoriteIds ==
    LET favorites == getOrderedFavorites(state)
    IN  [i \in 1..Len(favorites) |-> favorites[i].id]
FavoriteKey(id) == IF id \in Range(state.scenes) THEN nameKey(id) ELSE 0

\* Two entries of `input` whose names compare equal are in `output` in the
\* order they have in `input`
TiesKept(input, output, Key(_)) ==
    \A a, b \in Range(input) :
        (a # b /\ Key(a) = Key(b) /\ FirstIndex(input, a) < FirstIndex(input, b))
            => FirstIndex(output, a) < FirstIndex(output, b)

\* C15: under the alphabetical and the reverse preference, entities whose names
\* compare equal without case appear in the ordered list in the relative order
\* they have in the collection (scenes, rooms) or in the stored favorites
TiesKeepInputOrder ==
    /\ (OrderedListShown /\ ShownPreference \in {"alphabetical", "reverse"})
           => TiesKept(ShownItems, ShownOrder, nameKey)
    /\ (state.listView = "favorites"
           /\ state.preferences.listOrder.favorites \in {"alphabetical", "reverse"})
           => TiesKept(StoredFavoriteIds, ShownFavoriteIds, FavoriteKey)

\* The labels of the main menu under the preferences of the store
MainMenuLabels == listItemNamesForState([state EXCEPT !.listView = "main"])

\* The number of positions of the main menu that show `label`
TimesInMainMenu(label) ==
    Cardinality({i \in 1..Len(MainMenuLabels) : MainMenuLabels[i] = label})

\* The screen a main-menu label stands for
ScreenOfLabel(label) ==
    IF label = "Scenes" THEN "scenes" ELSE IF label = "Devices" THEN "rooms" ELSE "favorites"

\* A single tap on a position of the main menu has opened a screen
OpenedFromMainMenu == state.listView # "main" /\ hist.commitsSince = 1

\* the screen opened is the one whose label the tapped position showed
OpenedScreenOfTappedLabel ==
    OpenedFromMainMenu =>
        state.listView = ScreenOfLabel(MainMenuLabels[hist.lastCommit.pos + 1])

\* C16: whatever the stored preferences, the main menu shows Scenes once, Devices
\* once and Favorites once exactly when there are favorites, and nothing else
\* (no Back, no Next); a tap on position i opens the screen whose label is at i
MainMenuShowsEachItemOnce ==
    /\ TimesInMainMenu("Scenes") = 1
    /\ TimesInMainMenu("Devices") = 1
    /\ TimesInMainMenu("Favorites") = (IF state.preferences.favoritesIds = <<>> THEN 0 ELSE 1)
    /\ Len(MainMenuLabels) = (IF state.preferences.favoritesIds = <<>> THEN 2 ELSE 3)
    /\ OpenedScreenOfTappedLabel

-----------------------------------------------------------------------------
(* Properties of the navigation *)

\* C1: in every reachable state of the app the stored page index is a page of the
\* current screen: 0 <= listPageIndex <= totalPages - 1
PageIndexWithinPages ==
    /\ state.listPageIndex >= 0
    /\ state.listPageIndex <= getTotalPages(state) - 1

\* The screen lists a collection and the collection is empty
EmptyListShown == state.listView \in PagedViews /\ OrderedLabels(state) = <<>>

\* C11: on a list screen (scenes, rooms, devices, favorites) whose collection is
\* empty, whatever the load status, the labels are Back at slot 0 followed by
\* exactly one informational line
EmptyListShowsBackAndOneLine ==
    EmptyListShown =>
        LET names == listItemNamesForState(state)
        IN  /\ Len(names) = 2
            /\ names[1] = LABEL_BACK
            /\ names[2] \notin StructuralLabels

-----------------------------------------------------------------------------
(* Properties of the pagination *)

\* C2: on the scenes, rooms, favorites and devices screens over n >= 1 entities,
\* the content labels of pages 0..totalPages-1 (controls, All and padding left
\* out), concatenated, are exactly the labels of the ordered sequence: every
\* entity once, in order, n labels in all.
PagesConcatenateToOrderedSequence ==
    (/\ walk.done
     /\ walk.start = 0
     /\ state.listView \in PagedViews
     /\ Len(OrderedLabels(state)) >= 1)
    => walk.acc = OrderedLabels(state)

\* a walk over three pages of devices has been completed
WalkedThreeDevicePages ==
    /\ walk.done
    /\ walk.start = 0
    /\ state.listView = "devices"
    /\ state.listPageIndex >= 2
    /\ Len(walk.acc) > 2 * (DEVICES_PER_PAGE - 1)

\* C3: on every page of the scenes, rooms, favorites, devices and dim-level
\* screens, a displayed position shows the label of entity i of the ordered
\* sequence exactly when the router resolves a single tap on that position to
\* entity i: the position of entity i maps back to i and no other position does.
RouterInvertsSlotPlacement ==
    (/\ routed.slot >= 0
     /\ state.listView \in PagedViews \cup DimViews
     /\ state.listPageIndex <= getTotalPages(state) - 1)
    => LET names == listItemNamesForState(state)
           ordered == OrderedLabels(state)
           isDim == state.listView \in DimViews
       IN  \A i \in 1..Len(ordered) :
              (names[routed.slot + 1] = ordered[i])
              <=> (/\ routed.target.kind = (IF isDim THEN "level" ELSE "entity")
                   /\ routed.target.index = (IF isDim THEN DIM_LEVELS[i] ELSE i - 1))

\* a position on a later page has been resolved to an entity
RoutedEntityOnLaterPage ==
    /\ routed.slot >= 1
    /\ routed.target.kind = "entity"
    /\ state.listPageIndex >= 1
    /\ state.listView \in PagedViews
    /\ state.preferences.listOrder.scenes = "custom"

\* C10: on every screen, for every collection size and page index, the visible
\* label list has at most LIST_MAX_ITEMS entries, every page before the last
\* ends with the Next control and the last page holds no Next control.
PageFitsAndNextOnlyBeforeLast ==
    LET names == listItemNamesForState(state)
        page == state.listPageIndex
        totalPages == getTotalPages(state)
    IN  /\ Len(names) <= LIST_MAX_ITEMS
        /\ page < totalPages - 1 => (Len(names) >= 1 /\ names[Len(names)] = LABEL_NEXT)
        /\ page >= totalPages - 1 => \A i \in 1..Len(names) : names[i] # LABEL_NEXT

\* a full middle page: LIST_MAX_ITEMS labels, the last one Next
FullMiddlePage ==
    /\ Len(listItemNamesForState(state)) = LIST_MAX_ITEMS
    /\ listItemNamesForState(state)[LIST_MAX_ITEMS] = LABEL_NEXT
    /\ state.listPageIndex >= 1
    /\ state.listPageIndex < getTotalPages(state) - 1

\* C12: on the devices screen with 25 devices, page 0 shows Back, All, device[0..16]
\* and Next (20 slots), page 1 shows Previous and device[17..24] without Next, and
\* there are two pages
TwentyFiveDevicesOnTwoPages ==
    (state.listView = "devices" /\ Len(state.devices) = 25) =>
        LET names == listItemNamesForState(state)
            devices == OrderedLabels(state)
        IN  /\ getTotalPages(state) = 2
            /\ state.listPageIndex = 0 =>
                   names = <<LABEL_BACK, LABEL_ALL>> \o Slice(devices, 0, 17) \o <<LABEL_NEXT>>
            /\ state.listPageIndex = 1 =>
                   names = <<LABEL_PREVIOUS>> \o Slice(devices, 17, 25)

\* The content slots between the controls of a page that has a Previous and a Next
FullPageContentWidth(view) ==
    IF view = "devices" THEN DEVICES_PER_PAGE - 1 ELSE SCENES_PER_PAGE

\* The empty labels of a page are its last content slots
PaddingTrails(names) ==
    \A i \in 1..Len(names) : \A j \in i..Len(names) :
        names[i] = "" => names[j] \in {"", LABEL_NEXT}

\* C13: on the scenes, rooms, favorites and devices screens an empty padding label
\* appears only on a last page that is not the first page, and such a page is
\* right-padded to the content width of a full page
PaddingOnlyOnLaterLastPage ==
    (state.listView \in PagedViews /\ OrderedLabels(state) # <<>>) =>
        LET names == listItemNamesForState(state)
            totalPages == getTotalPages(state)
            page == Min(state.listPageIndex, totalPages - 1)
        IN  IF page = totalPages - 1 /\ page > 0
            THEN /\ Len(names) = 1 + FullPageContentWidth(state.listView)
                 /\ PaddingTrails(names)
            ELSE "" \notin Range(names)

\* C30: on the device-dim and room-all-dim screens Back and all 11 dim levels
\* (0, 10, ..., 100) are shown on page 0 with no Next control, totalPages = 1, and
\* slot i (1 <= i <= 11) maps to level 10 * (i - 1)
DimScreenShowsAllLevels ==
    state.listView \in DimViews =>
        /\ state.listPageIndex = 0
        /\ getTotalPages(state) = 1
        /\ labels = <<LABEL_BACK>> \o [i \in 1..11 |-> ToString(10 * (i - 1))]
        /\ \A i \in 1..11 : getDimLevelByStateAndIndex(state, i) = 10 * (i - 1)
        /\ routed.slot >= 1 => routed.target = Target("level", 10 * (routed.slot - 1))

\* The router has resolved the last slot of the room-all-dim screen to level 100
LastDimSlotRouted ==
    /\ state.listView = "room-all-dim"
    /\ routed.slot = 11
    /\ routed.target = Target("level", 100)

-----------------------------------------------------------------------------
(* Properties of the gesture session *)

\* No raw event has arrived for more than TAP_COMMIT_MS
Silence == lastTapAge > TAP_COMMIT_MS

\* The run of k single taps at one position has been committed once, as min(k, 4) taps
TapRunCommittedOnce ==
    /\ hist.tapRun.commits = 1
    /\ hist.commitsSince = 1
    /\ hist.lastCommit = [pos |-> hist.tapRun.pos, count |-> Min(hist.tapRun.k, 4)]

\* C4: when k >= 2 single taps arrive at one position, each within TAP_WINDOW_MS
\* of the one before and before the commit timer of the one before is due (less
\* than TAP_COMMIT_MS after it), and then no raw event arrives for TAP_COMMIT_MS,
\* exactly one commit occurs and it carries tapCount = min(k, 4); on the
\* simulator (400/450 ms) and on the glasses (800/800 ms).
RapidTapsCommitOnceBeforeTimerDue ==
    (/\ hist.tapRun.k >= 2
     /\ hist.tapRun.clean
     /\ hist.tapRun.strict
     /\ Silence)
    => TapRunCommittedOnce

\* C4 as stated: each tap within TAP_WINDOW_MS of the one before, then silence
RapidTapsCommitOnce ==
    (/\ hist.tapRun.k >= 2
     /\ hist.tapRun.clean
     /\ Silence)
    => TapRunCommittedOnce

\* five taps on the glasses have been committed as four
FiveTapsCommittedAsFour ==
    /\ useRealGlasses
    /\ hist.tapRun.k = 5
    /\ hist.tapRun.clean
    /\ hist.tapRun.strict
    /\ Silence
    /\ hist.lastCommit.count = 4

\* C5: during a run of two or more single taps at strictly increasing positions,
\* each within SCROLL_WINDOW_MS of the one before, and after it until the next
\* raw event, commitTap is not invoked.
ScrollRunNeverCommits ==
    hist.scrollRun.len >= 2 => hist.scrollRun.commits = 0

\* a scroll run has ended in silence, its last tap still uncommitted
ScrollRunLeftUncommitted ==
    /\ hist.scrollRun.len >= 2
    /\ Silence
    /\ tapCount = 1
    /\ timers = {}

\* The last raw event has been committed once, as one tap at its position
LastRawCommittedAsSingleTap ==
    /\ hist.commitsSince = 1
    /\ hist.lastCommit = [pos |-> hist.lastRaw.pos, count |-> 1]

\* C6: a single tap that begins a fresh accumulation while the scroll history of
\* the last SCROLL_WINDOW_MS holds no other position, and that is followed by no
\* raw event for TAP_COMMIT_MS, is committed exactly once, with tapCount = 1, at
\* its position.
FreshSingleTapCommitsOnce ==
    (/\ hist.lastRaw.taps = 1
     /\ ~hist.lastRaw.same
     /\ ~hist.lastRaw.scrolling
     /\ Silence)
    => LastRawCommittedAsSingleTap

\* C6 as stated: whatever raw events preceded the single tap
AnySingleTapCommitsOnce ==
    (/\ hist.lastRaw.taps = 1
     /\ Silence)
    => LastRawCommittedAsSingleTap

\* a fresh single tap has been committed after the silence
FreshSingleTapCommitted ==
    /\ hist.lastRaw.taps = 1
    /\ ~hist.lastRaw.same
    /\ ~hist.lastRaw.scrolling
    /\ Silence
    /\ hist.lastCommit = [pos |-> 1, count |-> 1]

\* C7: at most one commit timer is pending, no pending timer was scheduled by an
\* earlier raw event than the last one, and no such timer has ever fired.
AtMostOneCommitTimer ==
    /\ Cardinality(timers) <= 1
    /\ \A t \in timers : ~t.stale /\ t.id = commitTimeoutId
    /\ ~hist.staleFired

\* a repeat has replaced the timer of the tap before it
TimerRescheduledByRepeat ==
    /\ hist.lastRaw.same
    /\ tapCount >= 2
    /\ Cardinality(timers) = 1

\* C8: after commitTap has returned, on every path, the session is neutral:
\* tapCount = 0, lastTapIndex = -1 and no commit timer is pending.
SessionNeutralAfterCommit ==
    hist.commitsSince >= 1 =>
        /\ tapCount = 0
        /\ lastTapIndex = -1
        /\ commitTimeoutId = null
        /\ timers = {}

\* a commit of three or more taps has returned
CommitOfManyTapsReturned ==
    /\ hist.commitsSince >= 1
    /\ hist.lastCommit.count >= 3

\* C9: after a raw event that repeats the accumulating position within the tap
\* window, or that has multiplicity 2, a commit timer is pending (until it
\* fires), also when the scroll history holds two or more positions.
RepeatOrDoubleLeavesTimerPending ==
    (/\ hist.lastRaw.same \/ hist.lastRaw.taps = 2
     /\ hist.commitsSince = 0)
    => /\ commitTimeoutId # null
       /\ \E t \in timers : t.id = commitTimeoutId

\* a repeat arrived while the scroll history held two positions
RepeatWhileScrolling ==
    /\ hist.lastRaw.same
    /\ hist.lastRaw.taps = 1
    /\ hist.lastRaw.scrolling
    /\ commitTimeoutId # null

-----------------------------------------------------------------------------
(* Properties of the router *)

\* The screen Back leads to from the screen of s
ParentScreen(s) ==
    IF s.listView = "devices" THEN "rooms"
    ELSE IF s.listView = "device-detail"
    THEN (IF s.selectedRoomId = null THEN "favorites" ELSE "devices")
    ELSE IF s.listView = "device-dim" THEN "device-detail"
    ELSE IF s.listView = "room-all-detail" THEN "devices"
    ELSE IF s.listView = "room-all-dim" THEN "room-all-detail"
    ELSE "main"

\* This step commits a single tap on position listIndex
SingleTapCommittedAt(listIndex) ==
    /\ home'.gestures = home.gestures + 1
    /\ hist'.lastCommit = [pos |-> listIndex, count |-> 1]

\* This step starts no scene execution and no device command, and the data of
\* the home and the preferences are as before
NoCommandStarted ==
    /\ inflight' = inflight
    /\ state'.status = state.status
    /\ state'.scenes = state.scenes
    /\ state'.rooms = state.rooms
    /\ state'.devices = state.devices
    /\ state'.allDevices = state.allDevices
    /\ state'.preferences = state.preferences

\* C17: a committed single tap on a structural control starts no domain command:
\* Back (slot 0 on page 0) changes the screen to the parent screen, Previous
\* (slot 0 on a later page) sets the page index to page - 1, and Next (the last
\* slot of a page before the last) sets it to page + 1
StructuralTapOnlyNavigates ==
    [][\A listIndex \in 0..(LIST_MAX_ITEMS - 1) :
          (SingleTapCommittedAt(listIndex) /\ state.listView # "main") =>
              LET page == state.listPageIndex
              IN  /\ (listIndex = 0 /\ page = 0) =>
                        /\ state'.listView = ParentScreen(state)
                        /\ state'.listPageIndex = 0
                        /\ state'.selectedRoomId = state.selectedRoomId
                        /\ NoCommandStarted
                  /\ (listIndex = 0 /\ page > 0) =>
                        /\ state' = [state EXCEPT !.listPageIndex = page - 1,
                                                  !.focusedListIndex = listIndex]
                        /\ NoCommandStarted
                  /\ (/\ listIndex > 0
                      /\ state.listView \in PagedViews
                      /\ page < getTotalPages(state) - 1
                      /\ listIndex = getLastListIndex(state)) =>
                        /\ state' = [state EXCEPT !.listPageIndex = page + 1,
                                                  !.focusedListIndex = listIndex]
                        /\ NoCommandStarted]_vars

\* Previous has been committed on the third page of a devices list
PreviousCommittedOnThirdPage ==
    /\ state.listView = "devices"
    /\ hist.lastCommit = [pos |-> 0, count |-> 1]
    /\ walk.start = 2
    /\ state.listPageIndex = 1
    /\ labels[1] = LABEL_PREVIOUS

\* C18: every transition that changes the current screen (NAV_VIEW, NAV_ROOM,
\* NAV_DEVICE, NAV_FAVORITE_DEVICE, NAV_ROOM_ALL) leaves listPageIndex = 0 and
\* focusedListIndex = 0
ScreenChangeResetsPageAndFocus ==
    [][state'.listView # state.listView =>
          /\ state'.listPageIndex = 0
          /\ state'.focusedListIndex = 0]_vars

\* A device on the second page of a devices list has been opened
DeviceOpenedFromSecondPage ==
    /\ state.listView = "device-detail"
    /\ state.selectedRoomId # null
    /\ walk.start = 1
    /\ hist.lastCommit.count = 1
    /\ hist.lastCommit.pos > 0
    /\ state.listPageIndex = 0
    /\ state.focusedListIndex = 0

\* C19: in every reachable state selectedDeviceId is non-null if and only if the
\* current screen is device-detail or device-dim
SelectedDeviceIffDeviceScreen ==
    state.selectedDeviceId # null <=> state.listView \in {"device-detail", "device-dim"}

\* A device opened from the favorites has been left with Back
ReturnedFromFavoriteDevice ==
    /\ state.listView = "favorites"
    /\ state.selectedDeviceId = null
    /\ state.devices # <<>>
    /\ state.devices = state.allDevices
    /\ hist.lastCommit = [pos |-> 0, count |-> 1]
    /\ home.gestures = 2

\* The navigation state of store state s
Navigation(s) ==
    <<s.listView, s.listPageIndex, s.selectedRoomId, s.selectedDeviceId>>

\* C20: the navigation state (listView, listPageIndex, selectedRoomId,
\* selectedDeviceId) changes only in the step that commits a tap: no answer to a
\* request (SCENES_LOADED, ROOMS_LOADED, DEVICES_LOADED, ALL_DEVICES_LOADED,
\* STATS_*, EXECUTE_END) changes any of these fields, whatever the screen and page
NavigationChangesOnlyByCommittedTap ==
    [][Navigation(state') # Navigation(state) => home'.gestures = home.gestures + 1]_vars

-----------------------------------------------------------------------------
(* Properties of the domain commands *)

\* The scene executions awaiting the answer of the cloud
ExecutionsInFlight == {r \in inflight : r[1] = "execute"}

\* C21: at most one scene execution is in flight at any time, and while it is the
\* status is 'executing': a scene tap committed meanwhile issues no execute call,
\* whatever the interleaving of taps, data loads and execution completions
AtMostOneExecutionInFlight ==
    /\ Cardinality(ExecutionsInFlight) <= 1
    /\ ExecutionsInFlight # {} => state.status = "executing"

\* The first scene is executing and a tap on the second one has been committed
SceneTappedWhileExecuting ==
    /\ state.listView = "scenes"
    /\ state.listPageIndex = 0
    /\ state.status = "executing"
    /\ home.gestures = 2
    /\ hist.lastCommit = [pos |-> 2, count |-> 1]
    /\ getSceneByIndex(state, 1) # null
    /\ inflight = {<<"execute", getSceneByIndex(state, 0)>>}

\* The device commands awaiting the answer of the cloud: <<class, arguments...>>
CommandsInFlight == {r[2] : r \in {q \in inflight : q[1] = "command"}}

\* C22: a committed tap that would start a device command (switch, set level,
\* room-wide switch or dim) while an earlier command of the same class has not
\* completed starts no new command: two commands of one class are never in
\* flight together
NoConcurrentDeviceCommandsOfOneClass ==
    \A c, d \in CommandsInFlight : c[1] = d[1] => c = d

\* The last confirmation shown classifies counted sub-actions: a room-wide
\* batch, or a scene execution answered with per-action results
CountedOutcomeConfirmed ==
    \/ hist.lastConfirmation.outcome = "batch"
    \/ /\ hist.lastConfirmation.command[1] = "executeScene"
       /\ hist.lastConfirmation.outcome # "thrown"
       /\ hist.lastConfirmation.counts[2] > 0

\* C23: a batch outcome with s successful sub-actions out of t is confirmed as
\* 'success' exactly when s = t and t > 0, as 'failure' exactly when s = 0
\* (t = 0 included), and as 'partial' otherwise (0 < s < t), for the room-wide
\* switch and dim batches and for the per-action results of a scene
BatchOutcomeClassified ==
    CountedOutcomeConfirmed =>
        LET s == hist.lastConfirmation.counts[1]
            n == hist.lastConfirmation.counts[2]
            result == hist.lastConfirmation.result
        IN  /\ result \in {"success", "failure", "partial"}
            /\ result = "success" <=> (s = n /\ n > 0)
            /\ result = "failure" <=> s = 0
            /\ result = "partial" <=> (0 < s /\ s < n)

\* A room-wide switch has been confirmed as partial
PartialBatchConfirmed ==
    /\ hist.lastConfirmation.command[1] = "allSwitch"
    /\ hist.lastConfirmation.outcome = "batch"
    /\ hist.lastConfirmation.counts[1] > 0
    /\ hist.lastConfirmation.counts[1] < hist.lastConfirmation.counts[2]
    /\ hist.lastConfirmation.result = "partial"

\* The call of the last confirmed command failed or has thrown: a scene
\* execution answered with a status of failure and no per-action results, a
\* device command with a FAILED result or an offline device, or a thrown call
FailedCallConfirmed ==
    \/ hist.lastConfirmation.outcome = "thrown"
    \/ /\ hist.lastConfirmation.outcome = "failed"
       /\ hist.lastConfirmation.counts[2] = 0

\* C24: every started domain command (scene execution, device switch, set level,
\* room-wide batch) is confirmed exactly once when it completes and is not
\* issued again; a call that fails or throws is confirmed as 'failure'
EveryCommandConfirmedOnce ==
    /\ hist.started = hist.confirmed + Cardinality(ExecutionsInFlight)
                                     + Cardinality({r \in inflight : r[1] = "command"})
    /\ FailedCallConfirmed => hist.lastConfirmation.result = "failure"

\* Two switch commands were started, both calls have thrown and each has been
\* confirmed as a failure
ThrownSwitchesConfirmed ==
    /\ hist.started = 2
    /\ hist.confirmed = 2
    /\ hist.lastConfirmation.command[1] = "switch"
    /\ hist.lastConfirmation.outcome = "thrown"
    /\ hist.lastConfirmation.result = "failure"
    /\ inflight \subseteq {<<"scenes", 0>>}

\* This step answers a request of the given kind
Answered(kind) == \E r \in inflight : r[1] = kind /\ r \notin inflight'

\* This step is a failure outcome: SCENES_ERROR, ROOMS_ERROR, DEVICES_ERROR,
\* EXECUTE_END with success = false, a device command confirmed as a failure, or
\* the answer to a stats fetch (failed or not)
FailureOutcome ==
    \/ Answered("scenes") /\ state'.status = "error"
    \/ Answered("rooms") /\ state'.roomsStatus = "error"
    \/ Answered("devices") /\ state'.devicesStatus = "error"
    \/ Answered("execute") /\ state'.status = "error"
    \/ Answered("command") /\ hist'.lastConfirmation.result = "failure"
    \/ Answered("stats")

\* C25: every failure outcome leaves the navigation state (listView,
\* listPageIndex, selectedRoomId, selectedDeviceId) unchanged
FailuresKeepNavigation ==
    [][FailureOutcome => Navigation(state') = Navigation(state)]_vars

\* The scenes request has failed while the second page of the rooms was shown
ScenesFailedOnSecondRoomsPage ==
    /\ state.listView = "rooms"
    /\ state.listPageIndex = 1
    /\ state.status = "error"
    /\ <<"scenes", 0>> \notin inflight
    /\ home.gestures = 0

\* This step commits a gesture of `count` taps on position listIndex
TapsCommittedAt(listIndex, count) ==
    /\ home'.gestures = home.gestures + 1
    /\ hist'.lastCommit = [pos |-> listIndex, count |-> count]

\* C27: on every screen other than the main menu a committed double tap goes
\* back, whatever the position tapped: on a page > 0 to the previous page, on page
\* 0 to the parent screen; it starts no domain command
DoubleTapGoesBack ==
    [][\A listIndex \in 0..(LIST_MAX_ITEMS - 1) :
          (TapsCommittedAt(listIndex, 2) /\ state.listView # "main") =>
              /\ NoCommandStarted
              /\ IF state.listPageIndex > 0
                 THEN state' = [state EXCEPT !.listPageIndex = state.listPageIndex - 1,
                                             !.focusedListIndex = listIndex]
                 ELSE /\ state'.listView = ParentScreen(state)
                      /\ state'.listPageIndex = 0]_vars

\* The screens commitTap treats as paginated lists (app.ts:1258-1265)
PaginatedScreens == PagedViews \cup DimViews \cup {"room-all-detail"}

\* C28: a committed tap with tapCount >= 3 on a paginated list sets listPageIndex
\* to totalPages - 1 when the current page is not the last one, and otherwise
\* changes no state; it starts no domain command and does not change the screen
TripleTapJumpsToLastPage ==
    [][\A listIndex \in 0..(LIST_MAX_ITEMS - 1), count \in 3..4 :
          (TapsCommittedAt(listIndex, count) /\ state.listView \in PaginatedScreens) =>
              LET tapped == [state EXCEPT !.focusedListIndex = listIndex]
                  last == getTotalPages(state) - 1
              IN  /\ NoCommandStarted
                  /\ state' = IF state.listPageIndex # last
                              THEN [tapped EXCEPT !.listPageIndex = last]
                              ELSE tapped]_vars

\* A triple tap on the first page of a list of three pages has been committed
TripleTapReachedThirdPage ==
    /\ state.listView \in PagedViews
    /\ walk.start = 0
    /\ home.gestures = 1
    /\ hist.lastCommit.count = 3
    /\ state.listPageIndex = 2
    /\ getTotalPages(state) = 3

-----------------------------------------------------------------------------
(* Properties of the display *)

\* No request is awaiting its answer and no timer is armed
NothingPending == inflight = {} /\ timers = {} /\ commitTimeoutId = null

\* C29: whenever a state change alters the label list derived from the state, a
\* page rebuild with the new label list is eventually sent, so that once no event
\* is pending the labels last sent equal the labels derived from the current state
LabelsCurrentWhenNothingPending ==
    NothingPending => labels = listItemNamesForState(state)

-----------------------------------------------------------------------------
(* Properties of the input mapper *)

\* The raw event is neither a click nor a double click: a scroll-top or
\* scroll-bottom list event, a list event with an unrecognized event-type code,
\* a system event of a type other than the double tap, or an event with neither part
Unrecognized(event) ==
    \/ event.channel = "none"
    \/ event.channel = "sys" /\ event.eventType # "double"
    \/ event.channel = "list" /\ event.eventType \in {"scroll_top", "scroll_bottom", "other"}

\* C26: a raw event that is not a recognized click or double click produces no
\* action: the store state, the gesture session and the pending commit timer are
\* left unchanged
UnrecognizedEventsIgnored ==
    [][\A event \in HubEvents :
          (Unrecognized(event) /\ HubEvent(event)) =>
              UNCHANGED <<state, lastTapIndex, tapCount, lastTapAge, recentListIndices,
                          commitTimeoutId, timers>>]_vars

-----------------------------------------------------------------------------
(* Properties of the accumulation of taps *)

\* C31: a raw tap of multiplicity m at position p adds m to tapCount, capped at 4,
\* when p is the accumulating position and the previous tap is at most
\* TAP_WINDOW_MS old; otherwise tapCount becomes m and the accumulating position
\* becomes p; tapCount is always in 0..4
TapCountAccumulates ==
    [][/\ tapCount \in 0..4
       /\ tapCount' \in 0..4
       /\ \A event \in HubEvents :
             LET action == mapEvenHubEvent(event, state)
             IN  (action.type = "TAP" /\ HubEvent(event)) =>
                     IF action.selectedIndex = lastTapIndex /\ lastTapAge <= TAP_WINDOW_MS
                     THEN /\ tapCount' = Min(tapCount + action.gestureTaps, 4)
                          /\ lastTapIndex' = lastTapIndex
                     ELSE /\ tapCount' = action.gestureTaps
                          /\ lastTapIndex' = action.selectedIndex]_vars

\* A double tap was added at the accumulating position within the window and the
\* count stands at four
FourthTapAccumulated ==
    /\ tapCount = 4
    /\ hist.lastRaw.same
    /\ hist.lastRaw.taps = 2
    /\ hist.tapRun.k = 0
    /\ commitTimeoutId # null

-----------------------------------------------------------------------------
(* Properties of the detail screens *)

DetailViews == {"device-detail", "room-all-detail"}

\* The devices of a room with every combination of switch and dimmer support
\* (device 1 switches, 2 dims, 3 does both, 4 does neither), and those in the store
DetailDevices == {<<1>>, <<2>>, <<3>>, <<4>>, <<4, 2>>, state.devices}

\* What the line `label` of the detail screen of s stands for
DetailEffects(s, label) ==
    LET device == s.listView = "device-detail"
        switch(on) == IF device THEN <<"switch", s.selectedDeviceId, on>>
                      ELSE <<"allSwitch", on>>
    IN  IF label = "On" THEN Effects(<<>>, FALSE, {}, switch(TRUE))
        ELSE IF label = "Off" THEN Effects(<<>>, FALSE, {}, switch(FALSE))
        ELSE IF label = "Dim"
        THEN Effects(<<NavView(IF device THEN "device-dim" ELSE "room-all-dim")>>,
                     TRUE, {}, <<"none">>)
        ELSE IF label = LABEL_BACK
        THEN Effects(<<NavView(ParentScreen(s))>>, TRUE, {}, <<"none">>)
        ELSE NoEffects

\* The domain commands this step starts
CommandsStarted == {r[2] : r \in {q \in inflight' \ inflight : q[1] = "command"}}

\* C32: on device-detail and room-all-detail the action of a committed single tap
\* on position i matches the label displayed on position i, for every combination
\* of switch and dimmer support: On turns on, Off turns off, Dim opens the dim
\* sub-screen, and a position with no label does nothing
DetailTapMatchesLabel ==
    [][/\ state.listView \in DetailViews =>
             \A devices \in DetailDevices :
                LET s == [state EXCEPT !.devices = devices]
                    names == listItemNamesForState(s)
                IN  \A i \in 0..(LIST_MAX_ITEMS - 1) :
                       commitEffects(s, i, 1) =
                          DetailEffects(s, IF i < Len(names) THEN names[i + 1] ELSE "")
       /\ \A listIndex \in 0..(LIST_MAX_ITEMS - 1) :
             (SingleTapCommittedAt(listIndex) /\ state.listView \in DetailViews) =>
                 LET label == IF listIndex < Len(labels) THEN labels[listIndex + 1] ELSE ""
                     device == state.listView = "device-detail"
                     switch(on) == IF device THEN <<"switch", state.selectedDeviceId, on>>
                                   ELSE <<"allSwitch", on>>
                 IN  IF label = "On"
                     THEN CommandsStarted = {switch(TRUE)} /\ state'.listView = state.listView
                     ELSE IF label = "Off"
                     THEN CommandsStarted = {switch(FALSE)} /\ state'.listView = state.listView
                     ELSE IF label = "Dim"
                     THEN /\ NoCommandStarted
                          /\ state'.listView = IF device THEN "device-dim" ELSE "room-all-dim"
                          /\ state'.selectedDeviceId = state.selectedDeviceId
                     ELSE IF label = LABEL_BACK
                     THEN NoCommandStarted /\ state'.listView = ParentScreen(state)
                     ELSE /\ NoCommandStarted
                          /\ state' = [state EXCEPT !.focusedListIndex = listIndex]]_vars

\* Dim was tapped on position 1 of the detail screen of a device that cannot be
\* switched, and its dim sub-screen is open
DimOpenedFromSecondLine ==
    /\ state.listView = "device-dim"
    /\ hist.lastCommit = [pos |-> 1, count |-> 1]
    /\ hist.started = 0
    /\ ~supportsSwitch(state.selectedDeviceId)

-----------------------------------------------------------------------------
(* Properties of a commit that follows answers of the cloud *)

\* The line of the list of s on position listIndex, "" when there is none
LineAt(s, listIndex) ==
    LET names == listItemNamesForState(s)
    IN  IF listIndex >= 0 /\ listIndex < Len(names) THEN names[listIndex + 1] ELSE ""

\* C33: the entity or control a commit acts on is the one that occupied the tapped
\* position on the page displayed when the tap was received, even if an answer of
\* the cloud or a change of the preferences alters the collection or the page
\* index between the tap and the firing of the commit timer
CommitActsOnTappedLine ==
    [][(CommitTap /\ tapCount = 1) => LineAt(state, lastTapIndex) = hist.lastRaw.label]_vars

\* C34: whenever the devices screen offers devices for selection, they are the
\* devices fetched for the currently selected room: an answer for a room selected
\* earlier does not replace the collection, and the devices of another room are
\* not shown while the fetch for the new room is pending
DevicesShownAreOfSelectedRoom ==
    (state.listView = "devices" /\ getOrderedDevices(state) # <<>>) =>
        hist.devicesRoom = state.selectedRoomId

-----------------------------------------------------------------------------
(* Properties of the lines that stand for no entity *)

\* The lines a list shows in place of its entities
PlaceholderLabels ==
    {"Loading...", "No scenes", "No rooms", "No devices", "No favorites",
     "Failed to load rooms", "Failed to load devices"}

\* C35: a committed single tap on a placeholder line or on an empty padding slot
\* starts no domain command and causes no navigation, on every list screen and in
\* every load status
PlaceholderTapDoesNothing ==
    [][\A listIndex \in 0..(LIST_MAX_ITEMS - 1) :
          (/\ SingleTapCommittedAt(listIndex)
           /\ state.listView \in PagedViews
           /\ listIndex < Len(labels)
           /\ labels[listIndex + 1] \in PlaceholderLabels \cup {""}) =>
              /\ NoCommandStarted
              /\ Navigation(state') = Navigation(state)]_vars

-----------------------------------------------------------------------------
(* Properties of what eventually happens *)

\* C36: every EXECUTE_START is eventually followed by EXECUTE_END, whether the
\* scene call succeeds, returns a non-success status or throws, so status does not
\* remain 'executing' for ever
ExecutionEventuallyEnds ==
    /\ (ExecutionsInFlight # {}) ~> (ExecutionsInFlight = {})
    /\ (state.status = "executing") ~> (state.status # "executing")

\* A scene call has thrown and the store has left 'executing'
ThrownExecutionEnded ==
    /\ hist.lastConfirmation.command[1] = "executeScene"
    /\ hist.lastConfirmation.outcome = "thrown"
    /\ state.status = "error"
    /\ ExecutionsInFlight = {}

\* C37: whenever roomsStatus is 'loading', also after the rooms screen was entered
\* again by Back or double tap from the devices screen, a rooms fetch is in flight
\* (so that roomsStatus eventually becomes 'ready' or 'error')
RoomsLoadingHasFetchInFlight ==
    state.roomsStatus = "loading" => <<"rooms", 0>> \in inflight

-----------------------------------------------------------------------------
(* Properties of the way back *)

\* More commits than any page index plus the depth of the screen tree
MaxBackSteps == 8

\* The store after the handler dispatched TAP for position 0 and commitTap
\* committed it as a single tap
committedBack(s) ==
    dispatchAll(reduce(s, [type |-> "TAP", selectedIndex |-> 0]), commitEffects(s, 0, 1).acts)

\* The number of single taps on position 0 committed from s until the main menu
\* is shown, -1 when it is not shown after `left` of them
RECURSIVE backSteps(_, _)
backSteps(s, left) ==
    IF s.listView = "main" THEN 0
    ELSE IF left = 0 THEN -1
    ELSE LET rest == backSteps(committedBack(s), left - 1)
         IN  IF rest < 0 THEN -1 ELSE rest + 1

\* The depth of the screen of s in the screen tree
RECURSIVE ScreenDepth(_)
ScreenDepth(s) ==
    IF s.listView = "main" THEN 0
    ELSE 1 + ScreenDepth([s EXCEPT !.listView = ParentScreen(s)])

\* C38: from every reachable navigation state, committing a single tap on position
\* 0 again and again reaches the main menu after finitely many commits: Previous
\* decreases the page index by one and Back moves to the parent in the screen tree
BackReachesMainMenu ==
    /\ backSteps(state, MaxBackSteps) = state.listPageIndex + ScreenDepth(state)
    /\ state.listView # "main" =>
          LET next == committedBack(state)
          IN  IF state.listPageIndex > 0
              THEN /\ next.listView = state.listView
                   /\ next.listPageIndex = state.listPageIndex - 1
              ELSE /\ next.listView = ParentScreen(state)
                   /\ next.listPageIndex = 0

\* The dim screen of a device opened from the favorites is three commits away
\* from the main menu
DimOfFavoriteDeviceThreeBack ==
    /\ state.listView = "device-dim"
    /\ state.selectedRoomId = null
    /\ home.gestures = 2
    /\ backSteps(state, MaxBackSteps) = 3

-----------------------------------------------------------------------------
(* Properties of the confirmation image and of the image queue *)

\* C39: at most one confirmation-dismiss timer is pending at any time, for every
\* interleaving of concurrent showConfirmation calls: a confirmation icon is never
\* blanked by a dismiss timer that was started for an earlier confirmation
AtMostOneDismissTimerPending ==
    /\ Len(display.dismissTimers) <= 1
    /\ ~display.overtaken

\* The images whose updateImageRawData call has not returned, as a sequence
ImagesInFlight ==
    IF display.sending = {} THEN <<>> ELSE <<(CHOOSE s \in display.sending : TRUE).data>>

\* C40: the bridge sends image updates one at a time and in order: there are never
\* two updateImageRawData calls in flight, the images are sent in the order
\* updateBoardImage was called, and an image enqueued while another is being sent
\* is sent by the running loop and not dropped
ImagesSentOneAtATimeInOrder ==
    /\ Cardinality(display.sending) <= 1
    /\ display.sent \o ImagesInFlight \o display.imageQueue = display.enqueued
    /\ (display.bridge /\ display.imageQueue # <<>>) => display.sending # {}

\* An image was enqueued while another was being sent, and every image enqueued
\* has been sent
ImageEnqueuedBehindWasSent ==
    /\ display.behind
    /\ display.sending = {}
    /\ display.imageQueue = <<>>
    /\ Len(display.sent) >= 2
    /\ display.sent = display.enqueued

====
